---- MODULE Spec2Model ----
(***************************************************************************)
(* Archetype-based entity/component store of pkg/ecs (ecs.go): BitSet      *)
(* signatures, Archetype columns, the World with its indices, Filter and   *)
(* QueryIterator, the query cache and the systems list.                    *)
(*                                                                         *)
(* A uint64 word is modelled as the set of its one-bit positions (0..63),  *)
(* so that |, &, ^ and << keep their 64-bit meaning.                       *)
(***************************************************************************)
EXTENDS Integers, Sequences, FiniteSets, TLC

VARIABLES world, created, ret, th, hist

vars == <<world, created, ret, th, hist>>

Nil == "nil"

(***************************************************************************)
(* Bounds of the model.                                                    *)
(***************************************************************************)
MaxEntities == 3

(***************************************************************************)
(* uint64 words.                                                           *)
(***************************************************************************)
WordBits == 64

BitSetWords == 2

Shl(w, n) == {k + n : k \in w} \cap (0 .. (WordBits - 1))

Xor(a, b) == (a \ b) \cup (b \ a)

(***************************************************************************)
(* BitSet: [2]ComponentID, here <<word0, word1>>.                          *)
(***************************************************************************)
EmptyBitSet == <<{}, {}>>

\* (*b)[word] with word >= len(b) is an index-out-of-range panic.
SetPanics(index) == (index \div WordBits) >= BitSetWords

Set(b, index) ==
    LET word == index \div WordBits
        bit  == index % WordBits
    IN  [b EXCEPT ![word + 1] = @ \cup {bit}]

Has(b, index) ==
    LET word == index \div WordBits
        bit  == index % WordBits
    IN  IF word >= Len(b) THEN FALSE ELSE (b[word + 1] \cap {bit}) # {}

Equals(b, other) == b[1] = other[1] /\ b[2] = other[2]

\* A faulty variant of ContainsAll: the second word is not compared.
ContainsAll_FirstWord(b, other) == (b[1] \cap other[1]) = other[1]

ContainsAll(b, other) ==
    (b[1] \cap other[1]) = other[1] /\ (b[2] \cap other[2]) = other[2]

Intersects(b, other) ==
    (b[1] \cap other[1]) # {} \/ (b[2] \cap other[2]) # {}

Hash(b) == Xor(b[1], Shl(b[2], 32))

\* A faulty variant of WordIndices: the bit positions, not the IDs.
WordIndices_NoOffset(wordIdx, word) ==
    LET bits == {bit \in 0..(WordBits - 1) : bit \in word}
    IN  [i \in 1..Cardinality(bits) |->
            CHOOSE bit \in bits : Cardinality({c \in bits : c < bit}) = i - 1]

\* Lines 77-81: the bits 0..63 of one word that are set, lowest first, as
\* the component IDs of word wordIdx.
WordIndices(wordIdx, word) ==
    LET bits == {bit \in 0..(WordBits - 1) : bit \in word}
    IN  [i \in 1..Cardinality(bits) |->
            wordIdx * WordBits
                + (CHOOSE bit \in bits : Cardinality({c \in bits : c < bit}) = i - 1)]

Indices(b) ==
    (IF b[1] = {} THEN <<>> ELSE WordIndices(0, b[1]))
    \o (IF b[2] = {} THEN <<>> ELSE WordIndices(1, b[2]))

(***************************************************************************)
(* Sequence helpers.                                                       *)
(***************************************************************************)
Range(s) == {s[i] : i \in DOMAIN s}

RECURSIVE SetAll(_, _)
SetAll(b, ids) ==
    IF ids = <<>> THEN b ELSE SetAll(Set(b, Head(ids)), Tail(ids))

\* Orders in which a Go map with these keys can be ranged over.
RangeOrders(keys) ==
    {o \in [1 .. Cardinality(keys) -> keys] : Range(o) = keys}

(***************************************************************************)
(* Filter.                                                                 *)
(***************************************************************************)
NewFilter(include) ==
    [include |-> SetAll(EmptyBitSet, include), exclude |-> EmptyBitSet]

Without(f, ids) == [f EXCEPT !.exclude = SetAll(@, ids)]

includeMatch(f, sig) == ContainsAll(sig, f.include)

excludeMatch(f, sig) == Intersects(f.exclude, sig)

(***************************************************************************)
(* Go maps as functions.                                                   *)
(***************************************************************************)
EmptyMap == [k \in {} |-> Nil]

MapPut(m, k, v) == [x \in (DOMAIN m) \cup {k} |-> IF x = k THEN v ELSE m[x]]

(***************************************************************************)
(* Components.  A component value is [id, ptr, val]: id is what its ID()   *)
(* method returns, ptr tells whether the dynamic type is a pointer type     *)
(* (pointer to Position) or a value type (Position), val is its payload.   *)
(* A Go type parameter T is [id, ptr].                                     *)
(***************************************************************************)
TypeOf(comp) == [id |-> comp.id, ptr |-> comp.ptr]

\* componentMap[id] = comp for each comp in turn: the last one of an ID wins.
RECURSIVE componentMapOf(_)
componentMapOf(components) ==
    IF components = <<>> THEN EmptyMap
    ELSE LET n == Len(components)
         IN  LET front == componentMapOf(SubSeq(components, 1, n - 1))
             IN  MapPut(front, components[n].id, components[n])

componentIDs(components) == [i \in DOMAIN components |-> components[i].id]

(***************************************************************************)
(* sync.RWMutex, as the code uses it.  writer is the thread that has       *)
(* called Lock and not yet Unlock (0: none); until held it waits for the   *)
(* read locks to be released.  A waiting or holding writer blocks RLock.   *)
(* readers counts the read locks each thread holds, and stolen the read    *)
(* locks released by threads that held none: the mutex itself only counts  *)
(* its readers, and RUnlock ends the program with the fatal error "sync:   *)
(* RUnlock of unlocked RWMutex" when the count is zero.                    *)
(***************************************************************************)
Threads == {1, 2}

NewRWMutex ==
    [readers |-> [t \in Threads |-> 0], stolen |-> 0, writer |-> 0, held |-> FALSE]

RECURSIVE readLocks(_, _)
readLocks(mu, ts) ==
    IF ts = {} THEN 0
    ELSE LET t == CHOOSE x \in ts : TRUE
         IN  mu.readers[t] + readLocks(mu, ts \ {t})

readerCount(mu) == readLocks(mu, Threads) - mu.stolen

canRLock(mu) == mu.writer = 0

RLock(mu, t) == [mu EXCEPT !.readers[t] = @ + 1]

RUnlockFatal(mu) == readerCount(mu) = 0

\* A faulty variant of RUnlock: the read lock is kept.
RUnlock_Kept(mu, t) == mu

RUnlock(mu, t) ==
    IF mu.readers[t] > 0 THEN [mu EXCEPT !.readers[t] = @ - 1]
    ELSE [mu EXCEPT !.stolen = @ + 1]

\* Lock, first half: the writer announces itself.
canLockBegin(mu) == mu.writer = 0

LockBegin(mu, t) == [mu EXCEPT !.writer = t]

\* A faulty variant of canLock: the writer does not wait for the read locks.
canLock_IgnoreReaders(mu, t) == mu.writer = t

\* Lock, second half: the read locks are gone and the writer holds the lock.
canLock(mu, t) == mu.writer = t /\ readerCount(mu) = 0

Lock(mu, t) == [mu EXCEPT !.held = TRUE]

\* A faulty variant of Unlock: the lock is kept.
Unlock_Kept(mu) == mu

Unlock(mu) == [mu EXCEPT !.writer = 0, !.held = FALSE]

(***************************************************************************)
(* Archetype.  A *Archetype is its position in world.archetypes.  Row and  *)
(* column indices are Go's, counted from 0.                                *)
(***************************************************************************)
GetComponentData(a, id) ==
    IF id \in DOMAIN a.compIndex /\ a.compIndex[id] < Len(a.components)
    THEN [ok |-> TRUE, data |-> a.components[a.compIndex[id] + 1].data]
    ELSE [ok |-> FALSE, data |-> <<>>]

\* A faulty variant of AddEntityRow: the new entity is written over the last row.
AddEntityRow_Overwrite(a, entityID) ==
    [a EXCEPT !.entities = IF @ = <<>> THEN <<entityID>>
                           ELSE [@ EXCEPT ![Len(@)] = entityID],
              !.entityIndex = MapPut(@, entityID, Len(a.entities))]

\* A faulty variant of AddEntityRow: the new entity becomes the first row.
AddEntityRow_Prepend(a, entityID) ==
    [a EXCEPT !.entities = <<entityID>> \o @,
              !.entityIndex = MapPut(@, entityID, Len(a.entities))]

\* Lines 149-151: the entity list and the entity index get the new row.
AddEntityRow(a, entityID) ==
    [a EXCEPT !.entities = Append(@, entityID),
              !.entityIndex = MapPut(@, entityID, Len(a.entities))]

\* A faulty variant of AddEntityComponent: every component goes to the first
\* slot.
AddEntityComponent_FirstSlot(a, id, comp) ==
    IF id \in DOMAIN a.compIndex
    THEN [a EXCEPT !.components[1].data = Append(@, comp)]
    ELSE a

\* A faulty variant of AddEntityComponent: the component is written over the
\* first row of its column.
AddEntityComponent_Overwrite(a, id, comp) ==
    IF id \in DOMAIN a.compIndex
    THEN [a EXCEPT !.components[a.compIndex[id] + 1].data =
                       IF @ = <<>> THEN <<comp>> ELSE [@ EXCEPT ![1] = comp]]
    ELSE a

\* Lines 154-156: one pass of the loop over componentMap.
AddEntityComponent(a, id, comp) ==
    IF id \in DOMAIN a.compIndex
    THEN [a EXCEPT !.components[a.compIndex[id] + 1].data = Append(@, comp)]
    ELSE a

RECURSIVE AddEntityComponents(_, _, _)
AddEntityComponents(a, componentMap, order) ==
    IF order = <<>> THEN a
    ELSE AddEntityComponents(
             AddEntityComponent(a, Head(order), componentMap[Head(order)]),
             componentMap, Tail(order))

\* The whole of AddEntity: the archetype afterwards; the index returned is
\* the length of the entity list before.
AddEntity(a, entityID, componentMap, order) ==
    AddEntityComponents(AddEntityRow(a, entityID), componentMap, order)

(***************************************************************************)
(* World.                                                                  *)
(***************************************************************************)
(***************************************************************************)
(* ComponentTypeRegistry of the World that has one (part_001): a mutex     *)
(* (mu is the thread that holds it, 0 when free), the map from types to    *)
(* IDs and the next ID.  A reflect.Type is a positive number.              *)
(***************************************************************************)
NewComponentTypeRegistry == [mu |-> 0, typeToID |-> EmptyMap, nextID |-> 0]

\* A faulty variant of GetComponentID: the next ID is not advanced.
GetComponentID_Reused(r, t) ==
    IF t \in DOMAIN r.typeToID THEN [registry |-> r, id |-> r.typeToID[t]]
    ELSE [registry |-> [r EXCEPT !.typeToID = MapPut(@, t, r.nextID)], id |-> r.nextID]

\* GetComponentID between Lock and Unlock: the registry after it and the ID.
GetComponentID(r, t) ==
    IF t \in DOMAIN r.typeToID THEN [registry |-> r, id |-> r.typeToID[t]]
    ELSE [registry |-> [r EXCEPT !.typeToID = MapPut(@, t, r.nextID),
                                 !.nextID = @ + 1],
          id |-> r.nextID]

(***************************************************************************)
(* RegisterComponentType, lines 97-109: componentTypes[id] is overwritten  *)
(* with the information about the type.  The function has no result.  The  *)
(* package variable componentTypes is kept as a field of the World.        *)
(***************************************************************************)
RegisterComponentType(types, id) == MapPut(types, id, [id |-> id])

(***************************************************************************)
(* The systems slice, line 176: a slice is an array, a length and a        *)
(* capacity; systemArrays holds the arrays that make or append allocated,  *)
(* by address.  A system is a positive number and NilSystem is the zero    *)
(* value of an array element.                                              *)
(***************************************************************************)
SystemsCap == 16

NilSystem == 0

\* make([]System, len, cap): a new array of cap zero elements.
makeSystems(len, cap) == [i \in 1..cap |-> NilSystem]

\* A faulty variant of copySystems: nothing is copied.
copySystems_Nothing(dst, src, n) == dst

\* Line 278, copy(newSystems, w.systems): the first n elements of src go
\* to dst.
copySystems(dst, src, n) == [i \in DOMAIN dst |-> IF i <= n THEN src[i] ELSE dst[i]]

\* Line 283, w.systems = append(w.systems, system), as a change of the World:
\* in place when the capacity allows, and into a new array of twice the
\* capacity otherwise.
appendSystem(w, system) ==
    LET sl == w.systems
    IN  IF sl.len < sl.cap
        THEN [w EXCEPT !.systemArrays[sl.array][sl.len + 1] = system,
                       !.systems.len = sl.len + 1]
        ELSE LET cap   == IF sl.cap = 0 THEN 1 ELSE 2 * sl.cap
                 array == [copySystems(makeSystems(sl.len, cap),
                                       w.systemArrays[sl.array], sl.len)
                              EXCEPT ![sl.len + 1] = system]
             IN  [w EXCEPT !.systemArrays = Append(@, array),
                           !.systems = [array |-> Len(w.systemArrays) + 1,
                                        len |-> sl.len + 1, cap |-> cap]]

RECURSIVE appendSystems(_, _)
appendSystems(w, systems) ==
    IF systems = <<>> THEN w
    ELSE appendSystems(appendSystem(w, Head(systems)), Tail(systems))

\* Lines 276-280: a new array when the spare capacity is less than the
\* number of systems to add.
growSystems(w, n) ==
    LET sl == w.systems
    IN  IF sl.cap - sl.len < n
        THEN [w EXCEPT !.systemArrays =
                           Append(@, copySystems(makeSystems(sl.len, sl.len + n),
                                                 w.systemArrays[sl.array], sl.len)),
                       !.systems = [array |-> Len(w.systemArrays) + 1,
                                    len |-> sl.len, cap |-> sl.len + n]]
        ELSE w

\* Lines 272-285, between Lock and Unlock.
AddSystems(w, systems) == appendSystems(growSystems(w, Len(systems)), systems)

\* Element i of a slice, from 1.
systemAt(w, sl, i) == w.systemArrays[sl.array][i]

NewWorld ==
    [mu                    |-> NewRWMutex,
     archetypes            |-> <<>>,
     archetypeMap          |-> EmptyMap,
     archetypesByComponent |-> EmptyMap,
     entityData            |-> EmptyMap,
     nextEntityID          |-> 0,
     registry              |-> NewComponentTypeRegistry,
     componentTypes        |-> EmptyMap,
     systems               |-> [array |-> 1, len |-> 0, cap |-> SystemsCap],
     systemArrays          |-> <<makeSystems(0, SystemsCap)>>,
     queryCache            |-> EmptyMap,
     caches                |-> EmptyMap]

\* A faulty variant of indexByComponent: only the first ID is indexed.
indexByComponent_FirstOnly(byComponent, ids, archetype) ==
    IF ids = <<>> THEN byComponent
    ELSE MapPut(byComponent, Head(ids),
                Append(IF Head(ids) \in DOMAIN byComponent THEN byComponent[Head(ids)]
                       ELSE <<>>, archetype))

\* Lines 198-200: the archetype is appended to the list of each of its IDs.
RECURSIVE indexByComponent(_, _, _)
indexByComponent(byComponent, ids, archetype) ==
    IF ids = <<>> THEN byComponent
    ELSE LET id == Head(ids)
             old == IF id \in DOMAIN byComponent THEN byComponent[id] ELSE <<>>
         IN  indexByComponent(MapPut(byComponent, id, Append(old, archetype)),
                              Tail(ids), archetype)

\* archetype is appended to w.archetypes; its pointer is its position there.
registerArchetype(w, archetype, order) ==
    LET ptr == Len(w.archetypes) + 1
    IN  [w EXCEPT
           !.archetypes = Append(@, archetype),
           !.archetypeMap = MapPut(@, Hash(archetype.signature), ptr),
           !.archetypesByComponent = indexByComponent(@, order, ptr)]

\* A faulty variant of archetypeFound: the signatures are not compared.
archetypeFound_HashOnly(w, signature) == Hash(signature) \in DOMAIN w.archetypeMap

\* Whether the lookup by hash yields an archetype of this very signature.
archetypeFound(w, signature) ==
    /\ Hash(signature) \in DOMAIN w.archetypeMap
    /\ Equals(w.archetypes[w.archetypeMap[Hash(signature)]].signature, signature)

newArchetype(signature, order) ==
    [mu          |-> NewRWMutex,
     signature   |-> signature,
     entities    |-> <<>>,
     components  |-> [i \in DOMAIN order |-> [id |-> order[i], data |-> <<>>]],
     compIndex   |-> [id \in Range(order) |-> (CHOOSE i \in DOMAIN order : order[i] = id) - 1],
     entityIndex |-> EmptyMap]

\* order: the order in which the loop of line 216 ranges over componentMap.
getOrCreateArchetype(w, signature, order) ==
    IF archetypeFound(w, signature)
    THEN [world |-> w, archetype |-> w.archetypeMap[Hash(signature)]]
    ELSE [world |-> registerArchetype(w, newArchetype(signature, order), order),
          archetype |-> Len(w.archetypes) + 1]

\* A faulty variant of nextID: the counter is not advanced.
nextID_Stuck(entityID) == entityID

\* A faulty variant of nextID: the counter skips an ID.
nextID_Skip(entityID) == entityID + 2

\* Line 257: w.nextEntityID++.
nextID(entityID) == entityID + 1

\* Lines 255-268 of CreateEntity, for the component list of one call.
createEntity(w, components, order) ==
    LET signature    == SetAll(EmptyBitSet, componentIDs(components))
        componentMap == componentMapOf(components)
        entityID     == w.nextEntityID
        w1           == [w EXCEPT !.nextEntityID = nextID(@)]
        got          == getOrCreateArchetype(w1, signature, order)
        w2           == got.world
        index        == Len(w2.archetypes[got.archetype].entities)
        w3           == [w2 EXCEPT !.archetypes[got.archetype] =
                             AddEntity(@, entityID, componentMap, order)]
    IN  [w3 EXCEPT !.entityData =
             MapPut(@, entityID, [archetype |-> got.archetype, index |-> index])]

(***************************************************************************)
(* GetComponent[T](w, entity).  The zero value of T has payload 0.  With   *)
(* T a pointer type the zero value is a nil pointer, and zero.ID() calls a *)
(* value-receiver method through it: a nil-dereference panic.  The type    *)
(* assertion .(T) panics when the stored value's dynamic type is not T.    *)
(***************************************************************************)
ZeroVal == 0

Returned(val) == [panic |-> FALSE, val |-> val]

Panicked == [panic |-> TRUE, val |-> ZeroVal]

GetComponent(w, T, entity) ==
    IF entity \notin DOMAIN w.entityData THEN Returned(ZeroVal)
    ELSE IF T.ptr THEN Panicked
    ELSE LET data == w.entityData[entity]
             a    == w.archetypes[data.archetype]
         IN  IF T.id \in DOMAIN a.compIndex
             THEN LET components == a.components[a.compIndex[T.id] + 1].data
                  IN  IF data.index < Len(components)
                      THEN IF TypeOf(components[data.index + 1]) = T
                           THEN Returned(components[data.index + 1].val)
                           ELSE Panicked
                      ELSE Returned(ZeroVal)
             ELSE Returned(ZeroVal)

(***************************************************************************)
(* Filter.Iterator and QueryIterator.  A nil slice is the empty sequence.  *)
(***************************************************************************)
NoArchetypes == [archetypes |-> <<>>, includeIDs |-> <<>>,
                 currentArchetype |-> 0, currentEntity |-> 0,
                 componentArrays |-> <<>>, row |-> <<>>]

\* Lines 439-453: the first shortest per-component archetype list.
RECURSIVE candidateArchetypes(_, _, _, _)
candidateArchetypes(w, includeIDs, minCount, candidates) ==
    IF includeIDs = <<>> THEN candidates
    ELSE LET archetypes == w.archetypesByComponent[Head(includeIDs)]
             count      == Len(archetypes)
         IN  IF minCount = -1 \/ count < minCount
             THEN candidateArchetypes(w, Tail(includeIDs), count, archetypes)
             ELSE candidateArchetypes(w, Tail(includeIDs), minCount, candidates)

\* A faulty variant of archetypeMatches: the exclude-set is not looked at.
archetypeMatches_IncludeOnly(w, f, arch) ==
    includeMatch(f, w.archetypes[arch].signature)

\* Line 458.
archetypeMatches(w, f, arch) ==
    /\ includeMatch(f, w.archetypes[arch].signature)
    /\ ~excludeMatch(f, w.archetypes[arch].signature)

Iterator(w, f) ==
    LET includeIDs == Indices(f.include)
    IN  IF Len(includeIDs) = 0 THEN NoArchetypes
        ELSE IF \E i \in DOMAIN includeIDs :
                    includeIDs[i] \notin DOMAIN w.archetypesByComponent
        THEN NoArchetypes
        ELSE [NoArchetypes EXCEPT
                !.archetypes =
                    SelectSeq(candidateArchetypes(w, includeIDs, -1, <<>>),
                              LAMBDA arch : archetypeMatches(w, f, arch)),
                !.includeIDs = includeIDs]

\* Lines 361-371: the columns of the included IDs, up to the first absent.
RECURSIVE columnsOf(_, _)
columnsOf(a, includeIDs) ==
    IF includeIDs = <<>> THEN <<>>
    ELSE LET got == GetComponentData(a, Head(includeIDs))
         IN  IF got.ok THEN <<got.data>> \o columnsOf(a, Tail(includeIDs))
             ELSE <<>>

\* Lines 359-382: what Next reads of an archetype while it holds its lock.
snapshotOf(a, includeIDs) ==
    LET arrays == columnsOf(a, includeIDs)
    IN  [allPresent      |-> Len(arrays) = Len(includeIDs),
         componentArrays |-> arrays,
         entityCount     |-> Len(a.entities)]

\* A faulty variant of nextArchetype: the row index is not reset.
nextArchetype_KeepEntity(qi) ==
    [qi EXCEPT !.currentArchetype = @ + 1, !.componentArrays = <<>>]

\* Lines 375-377, 385-387 and 393-395.
nextArchetype(qi) ==
    [qi EXCEPT !.currentArchetype = @ + 1, !.currentEntity = 0,
               !.componentArrays = <<>>]

\* Lines 399-413: fill the row from the snapshot; valid unless a column is
\* too short, and then the entries from that column on keep their old value.
fillRow(qi) ==
    LET arrays == qi.componentArrays
        e      == qi.currentEntity
        short  == {i \in DOMAIN arrays : e >= Len(arrays[i])}
        old    == IF qi.row = <<>> THEN [i \in DOMAIN qi.includeIDs |-> Nil]
                  ELSE qi.row
        row    == [i \in DOMAIN old |->
                     IF \A j \in short : i < j THEN arrays[i][e + 1] ELSE old[i]]
    IN  [qi |-> [qi EXCEPT !.row = row, !.currentEntity = @ + 1],
         valid |-> short = {}]

\* One call of Next with nobody else running.
RECURSIVE Next(_, _)
Next(w, qi) ==
    IF qi.currentArchetype >= Len(qi.archetypes) THEN [qi |-> qi, ok |-> FALSE]
    ELSE IF qi.componentArrays = <<>>
    THEN LET snap == snapshotOf(w.archetypes[qi.archetypes[qi.currentArchetype + 1]],
                                qi.includeIDs)
         IN  IF ~snap.allPresent \/ snap.entityCount = 0
             THEN Next(w, nextArchetype(qi))
             ELSE Next(w, [qi EXCEPT !.componentArrays = snap.componentArrays])
    ELSE IF qi.currentEntity >= Len(qi.componentArrays[1])
    THEN Next(w, nextArchetype(qi))
    ELSE LET filled == fillRow(qi)
         IN  IF filled.valid THEN [qi |-> filled.qi, ok |-> TRUE]
             ELSE Next(w, filled.qi)

\* Lines 488-492: the rows of the iterator, copied one by one.
RECURSIVE drain(_, _, _)
drain(w, qi, result) ==
    LET step == Next(w, qi)
    IN  IF step.ok THEN drain(w, step.qi, Append(result, step.qi.row))
        ELSE result

(***************************************************************************)
(* Filter.Query and the query cache.  w.queryCache maps a key to a         *)
(* *queryCache; w.caches holds the queryCache objects that the map or a    *)
(* running Query points to (the rest is garbage), by pointer.  Each has    *)
(* its own map, which holds the result under the same key.                 *)
(***************************************************************************)
cacheKeyOf(f) == Xor(Hash(f.include), Shl(Hash(f.exclude), 1))

\* Line 477: cache.cache[cacheKey], nil (no rows recorded) when absent.
cachedResult(w, cache, cacheKey) ==
    IF cacheKey \in DOMAIN w.caches[cache].cache
    THEN [ok |-> TRUE, result |-> w.caches[cache].cache[cacheKey]]
    ELSE [ok |-> FALSE, result |-> <<>>]

\* Lines 474-482: a cache object is there and holds a non-nil result.
cacheHit(w, cacheKey) ==
    /\ cacheKey \in DOMAIN w.queryCache
    /\ cachedResult(w, w.queryCache[cacheKey], cacheKey).ok

newCachePointer(w) ==
    CHOOSE p \in 1 .. (Cardinality(DOMAIN w.caches) + 1) : p \notin DOMAIN w.caches

\* Lines 495-501: the cache object of the key, made if absent.
ensureCache(w, cacheKey, f) ==
    IF cacheKey \in DOMAIN w.queryCache THEN w
    ELSE [w EXCEPT
            !.queryCache = MapPut(@, cacheKey, newCachePointer(w)),
            !.caches = MapPut(@, newCachePointer(w),
                              [mu |-> NewRWMutex, cache |-> EmptyMap, filter |-> f])]

\* Line 505.
storeResult(w, cache, cacheKey, result) ==
    [w EXCEPT !.caches[cache].cache = MapPut(@, cacheKey, result)]

\* Line 522.
ClearQueryCache(w) == [w EXCEPT !.queryCache = EmptyMap]

\* The cache objects still pointed at, by the map or by the pointers held.
collect(w, held) ==
    [w EXCEPT !.caches =
        [p \in (DOMAIN w.caches) \cap (Range(w.queryCache) \cup held) |-> w.caches[p]]]

\* One call of Query with nobody else running: the world and the rows.
Query(w, f) ==
    LET cacheKey == cacheKeyOf(f)
    IN  IF cacheHit(w, cacheKey)
        THEN [world |-> w,
              result |-> cachedResult(w, w.queryCache[cacheKey], cacheKey).result]
        ELSE LET result == drain(w, Iterator(w, f), <<>>)
                 w1     == ensureCache(w, cacheKey, f)
             IN  [world  |-> storeResult(w1, w1.queryCache[cacheKey], cacheKey, result),
                  result |-> result]

(***************************************************************************)
(* The local variables of a call in progress, one record per thread, and   *)
(* the history the properties speak about.                                 *)
(*   seen      the EntityIDs that CreateEntity calls had returned when the *)
(*             call began                                                  *)
(*   epoch     the number of ClearQueryCache calls that had returned then  *)
(*   snapshot  the columns and the entity count that Next last read of an  *)
(*             archetype in this call                                      *)
(*   batch     the systems given to AddSystems                             *)
(*   dt        the argument of Update                                      *)
(*   systems   the slice that Update copied                                *)
(*   invoked   the Update calls on systems that Update made so far, each   *)
(*             with its argument                                           *)
(*   registered  the systems of the AddSystems calls that had returned     *)
(*             when Update began                                           *)
(*   rtype     the type given to GetComponentID                            *)
(***************************************************************************)
NoSnapshot == [archetype |-> 0, componentArrays |-> <<>>, entityCount |-> 0]

IdleThread ==
    [pc |-> "idle", components |-> <<>>, order |-> <<>>, entityID |-> 0,
     archetype |-> 0, index |-> 0, T |-> [id |-> 0, ptr |-> FALSE], entity |-> 0,
     data |-> [exists |-> FALSE, archetype |-> 0, index |-> 0],
     f |-> NewFilter(<<>>), cacheKey |-> {}, cache |-> 0, qi |-> NoArchetypes,
     arrays |-> <<>>, allPresent |-> TRUE, result |-> <<>>,
     seen |-> {}, epoch |-> 0, snapshot |-> NoSnapshot,
     batch |-> <<>>, dt |-> 0, systems |-> [array |-> 1, len |-> 0, cap |-> 0],
     invoked |-> <<>>, registered |-> <<>>, rtype |-> 0]

\*   calls     the number of calls begun
\*   returned  the EntityIDs CreateEntity returned, per thread, in order
\*   epoch     the number of ClearQueryCache calls that returned
\*   first     per filter, the rows of the first Query that began and
\*             returned after the last ClearQueryCache
\*   stale     some Query returned rows that miss a matching entity whose
\*             CreateEntity had returned before the Query began
\*   changed   some Query returned other rows than first holds for its filter
\*   registered  the systems of the AddSystems calls that returned, in order
\*   assigned  what the GetComponentID calls returned: thread, type and ID
\*   firstUse  the types in the order in which GetComponentID first took
\*             the mutex for them
\*   cleared   per number of ClearQueryCache calls that returned, the
\*             EntityIDs that CreateEntity had returned before one of these
\*             calls began
\*   lost      some Query that began after a ClearQueryCache call had
\*             returned gave rows that miss a matching entity whose
\*             CreateEntity had returned before that call began
\*   panics    the calls that ended with a panic, in order: thread,
\*             function and line of the panic
\*   nested    the systems that AddSystems calls made by a system's Update
\*             have registered
NoHistory ==
    [calls |-> 0, returned |-> [t \in Threads |-> <<>>], epoch |-> 0,
     first |-> EmptyMap, stale |-> FALSE, changed |-> FALSE, registered |-> <<>>,
     assigned |-> <<>>, firstUse |-> <<>>, cleared |-> <<>>, lost |-> FALSE,
     nested |-> {}, panics |-> <<>>]

(***************************************************************************)
(* The calls of one driver, each running alone: specification Spec.        *)
(* created is the list of component lists given to CreateEntity, by        *)
(* EntityID; ret is the last call with what it returned.                   *)
(***************************************************************************)
MaxCached == 1

Comp(id, ptr, val) == [id |-> id, ptr |-> ptr, val |-> val]

\* Component lists of value types, for one call; the driver gives the
\* components of a call the payload tag.
ValueLists(tag) ==
    {<<>>, <<Comp(1, FALSE, tag)>>, <<Comp(32, FALSE, tag)>>, <<Comp(64, FALSE, tag)>>,
     <<Comp(1, FALSE, tag), Comp(32, FALSE, tag)>>,
     <<Comp(32, FALSE, tag), Comp(1, FALSE, tag)>>,
     <<Comp(1, FALSE, tag), Comp(64, FALSE, tag)>>}

\* Component lists with values and pointers, as main.go passes them.
TypedLists(tag) ==
    {<<>>, <<Comp(1, FALSE, tag)>>, <<Comp(1, TRUE, tag)>>, <<Comp(32, FALSE, tag)>>,
     <<Comp(1, FALSE, tag), Comp(32, FALSE, tag)>>,
     <<Comp(32, FALSE, tag), Comp(1, TRUE, tag)>>, <<Comp(32, FALSE, ZeroVal)>>}

ComponentTypes ==
    {[id |-> 1, ptr |-> FALSE], [id |-> 1, ptr |-> TRUE], [id |-> 32, ptr |-> FALSE]}

Filters ==
    {Without(NewFilter(include), exclude) :
        include \in {<<>>, <<1>>, <<32>>, <<64>>, <<32, 1>>},
        exclude \in {<<>>, <<64>>}}

Init ==
    /\ world = NewWorld
    /\ created = <<>>
    /\ ret = [op |-> "NewWorld"]
    /\ th = [t \in Threads |-> IdleThread]
    /\ hist = NoHistory

CreateEntityCall(lists) ==
    \E components \in lists :
      \E order \in RangeOrders(Range(componentIDs(components))) :
        /\ world.nextEntityID < MaxEntities
        /\ world' = createEntity(world, components, order)
        /\ created' = Append(created, components)
        /\ ret' = [op |-> "CreateEntity", entity |-> world.nextEntityID]
        /\ UNCHANGED <<th, hist>>

QueryCall ==
    \E f \in Filters :
        /\ \/ cacheHit(world, cacheKeyOf(f))
           \/ Cardinality(DOMAIN world.queryCache) < MaxCached
        /\ world' = Query(world, f).world
        /\ ret' = [op |-> "Query", filter |-> f, result |-> Query(world, f).result]
        /\ UNCHANGED <<created, th, hist>>

ClearQueryCacheCall ==
    /\ world.queryCache # EmptyMap
    /\ world' = collect(ClearQueryCache(world), {})
    /\ ret' = [op |-> "ClearQueryCache"]
    /\ UNCHANGED <<created, th, hist>>

GetComponentCall ==
    \E T \in ComponentTypes, entity \in 0 .. MaxEntities :
        /\ ret' = [op |-> "GetComponent", T |-> T, entity |-> entity,
                   out |-> GetComponent(world, T, entity)]
        /\ UNCHANGED <<world, created, th, hist>>

Next0 ==
    \/ CreateEntityCall(ValueLists(world.nextEntityID + 1))
    \/ QueryCall
    \/ ClearQueryCacheCall

Spec == Init /\ [][Next0]_vars

NextGet ==
    \/ CreateEntityCall(TypedLists(world.nextEntityID + 1))
    \/ GetComponentCall

SpecGet == Init /\ [][NextGet]_vars

(***************************************************************************)
(* Concurrent callers: specification SpecConc.  Each thread makes calls    *)
(* one after the other; a call goes through the lock operations of its     *)
(* code one step at a time, and what it does between two lock operations   *)
(* is one step.  pc names the lock operation the thread has reached.       *)
(***************************************************************************)
MaxCalls == 4

ConcLists(tag) ==
    {<<Comp(1, FALSE, tag), Comp(32, FALSE, tag)>>, <<Comp(32, FALSE, tag)>>,
     <<Comp(64, FALSE, tag)>>}

ConcFilters == {NewFilter(<<32, 1>>)}

ConcTypes == {[id |-> 32, ptr |-> FALSE]}

returnedIDs == UNION {Range(hist.returned[t]) : t \in Threads}

heldCaches(thr) == {thr[u].cache : u \in Threads} \ {0}

archetypeOf(t) == world.archetypes[th[t].archetype]

\* Lines 392-416 and 488-492 between two snapshots: the rows of the columns
\* held, until Next needs the lock of the next archetype or returns false.
RECURSIVE runLocal(_, _)
runLocal(qi, result) ==
    IF qi.currentArchetype >= Len(qi.archetypes)
    THEN [qi |-> qi, result |-> result, done |-> TRUE]
    ELSE IF qi.componentArrays = <<>>
    THEN [qi |-> qi, result |-> result, done |-> FALSE]
    ELSE IF qi.currentEntity >= Len(qi.componentArrays[1])
    THEN runLocal(nextArchetype(qi), result)
    ELSE LET filled == fillRow(qi)
         IN  runLocal(filled.qi,
                      IF filled.valid THEN Append(result, filled.qi.row) ELSE result)

begins(t) == th[t].pc = "idle" /\ hist.calls < MaxCalls

\* A fatal error of the runtime ends the program: no thread runs on.
Fatal ==
    /\ th' = [t \in Threads |-> [th[t] EXCEPT !.pc = "fatal"]]
    /\ UNCHANGED <<world, created, ret, hist>>

\* ---- CreateEntity, lines 246-270 and AddEntity, lines 145-160 ----

\* Lines 249-253: comp.ID() of a nil Component panics (line 250), and so
\* does signature.Set(id) with an ID beyond the array (line 251).
NilComponent == [nil |-> TRUE]

createPanics(components) ==
    \E i \in DOMAIN components :
        components[i] = NilComponent \/ SetPanics(components[i].id)

\* Lines 247-255 with one of the given component lists: the loop panics, or
\* the call reaches w.mu.Lock() and the writer announces itself.
CreateEntityWith(t, lists) ==
    \E components \in lists :
        /\ begins(t)
        /\ IF createPanics(components)
           THEN /\ hist' = [hist EXCEPT !.calls = @ + 1,
                                        !.panics = Append(@, <<t, "CreateEntity",
                                              IF NilComponent \in Range(components)
                                              THEN 250 ELSE 251>>)]
                /\ UNCHANGED <<world, th>>
           ELSE /\ canLockBegin(world.mu)
                /\ world' = [world EXCEPT !.mu = LockBegin(@, t)]
                /\ th' = [th EXCEPT ![t] = [IdleThread EXCEPT !.pc = "ce_lock",
                                                              !.components = components]]
                /\ hist' = [hist EXCEPT !.calls = @ + 1]
        /\ UNCHANGED <<created, ret>>

CreateEntityBegin(t) == CreateEntityWith(t, ConcLists(world.nextEntityID + 1))

\* Lines 255-259: the lock is held; the ID is taken, the archetype found.
CreateEntityLocked(t) ==
    /\ th[t].pc = "ce_lock"
    /\ canLock(world.mu, t)
    /\ \E order \in RangeOrders(Range(componentIDs(th[t].components))) :
         LET w1  == [world EXCEPT !.mu = Lock(@, t), !.nextEntityID = nextID(@)]
             got == getOrCreateArchetype(
                        w1, SetAll(EmptyBitSet, componentIDs(th[t].components)), order)
         IN  /\ world' = got.world
             /\ th' = [th EXCEPT ![t].pc = "ce_add",
                                 ![t].entityID = world.nextEntityID,
                                 ![t].archetype = got.archetype]
    /\ created' = Append(created, th[t].components)
    /\ UNCHANGED <<ret, hist>>

\* Line 146, a.mu.Lock(): the writer announces itself.
CreateEntityArchLockBegin(t) ==
    /\ th[t].pc = "ce_add"
    /\ canLockBegin(archetypeOf(t).mu)
    /\ world' = [world EXCEPT !.archetypes[th[t].archetype].mu = LockBegin(@, t)]
    /\ th' = [th EXCEPT ![t].pc = "ce_alock"]
    /\ UNCHANGED <<created, ret, hist>>

\* Lines 146-151: the archetype lock is held; the entity list gets the row.
CreateEntityAddRow(t) ==
    /\ th[t].pc = "ce_alock"
    /\ canLock(archetypeOf(t).mu, t)
    /\ \E order \in RangeOrders(Range(componentIDs(th[t].components))) :
         th' = [th EXCEPT ![t].pc = "ce_cols",
                          ![t].index = Len(archetypeOf(t).entities),
                          ![t].order = order]
    /\ world' = [world EXCEPT !.archetypes[th[t].archetype] =
                    AddEntityRow([@ EXCEPT !.mu = Lock(@, t)], th[t].entityID)]
    /\ UNCHANGED <<created, ret, hist>>

\* Lines 153-157: one pass of the loop.
CreateEntityAddComponent(t) ==
    /\ th[t].pc = "ce_cols"
    /\ th[t].order # <<>>
    /\ world' = [world EXCEPT !.archetypes[th[t].archetype] =
                    AddEntityComponent(@, Head(th[t].order),
                        componentMapOf(th[t].components)[Head(th[t].order)])]
    /\ th' = [th EXCEPT ![t].order = Tail(@)]
    /\ UNCHANGED <<created, ret, hist>>

\* Line 147, the deferred a.mu.Unlock().
CreateEntityArchUnlock(t) ==
    /\ th[t].pc = "ce_cols"
    /\ th[t].order = <<>>
    /\ world' = [world EXCEPT !.archetypes[th[t].archetype].mu = Unlock(@)]
    /\ th' = [th EXCEPT ![t].pc = "ce_data"]
    /\ UNCHANGED <<created, ret, hist>>

\* Lines 263-269.
CreateEntityReturn(t) ==
    /\ th[t].pc = "ce_data"
    /\ world' = [world EXCEPT
                   !.entityData = MapPut(@, th[t].entityID,
                        [archetype |-> th[t].archetype, index |-> th[t].index]),
                   !.mu = Unlock(@)]
    /\ th' = [th EXCEPT ![t] = IdleThread]
    /\ hist' = [hist EXCEPT !.returned[t] = Append(@, th[t].entityID)]
    /\ UNCHANGED <<created, ret>>

\* ---- GetComponent, lines 299-322 ----

\* Lines 300-301, with T one of the given types.
GetComponentOf(t, types) ==
    \E T \in types, entity \in 0 .. 1 :
        /\ begins(t)
        /\ canRLock(world.mu)
        /\ world' = [world EXCEPT !.mu = RLock(@, t)]
        /\ th' = [th EXCEPT ![t] =
                    [IdleThread EXCEPT
                       !.pc = "gc_read", !.T = T, !.entity = entity,
                       !.data = IF entity \in DOMAIN world.entityData
                                THEN [exists |-> TRUE,
                                      archetype |-> world.entityData[entity].archetype,
                                      index |-> world.entityData[entity].index]
                                ELSE IdleThread.data]]
        /\ hist' = [hist EXCEPT !.calls = @ + 1]
        /\ UNCHANGED <<created, ret>>

GetComponentBegin(t) == GetComponentOf(t, ConcTypes)

\* Lines 302-309: returns zero, or panics in zero.ID(), or goes on.
GetComponentLookedUp(t) ==
    /\ th[t].pc = "gc_read"
    /\ IF RUnlockFatal(world.mu) THEN Fatal
       ELSE /\ world' = [world EXCEPT !.mu = RUnlock(@, t)]
            /\ th' = [th EXCEPT ![t] =
                        IF ~th[t].data.exists \/ th[t].T.ptr THEN IdleThread
                        ELSE [@ EXCEPT !.pc = "gc_arch", !.archetype = th[t].data.archetype]]
            /\ hist' = IF th[t].data.exists /\ th[t].T.ptr
                       THEN [hist EXCEPT !.panics = Append(@, <<t, "GetComponent", 309>>)]
                       ELSE hist
            /\ UNCHANGED <<created, ret>>

\* Line 311.
GetComponentArchRLock(t) ==
    /\ th[t].pc = "gc_arch"
    /\ canRLock(archetypeOf(t).mu)
    /\ world' = [world EXCEPT !.archetypes[th[t].archetype].mu = RLock(@, t)]
    /\ th' = [th EXCEPT ![t].pc = "gc_comp"]
    /\ UNCHANGED <<created, ret, hist>>

\* A faulty variant of GetComponentReturn: the archetype's read lock is
\* released by the return only, not when the type assertion panics.
GetComponentReturn_NoDefer(t) ==
    /\ th[t].pc = "gc_comp"
    /\ world' = IF GetComponent(world, th[t].T, th[t].entity).panic THEN world
                ELSE [world EXCEPT !.archetypes[th[t].archetype].mu = RUnlock(@, t)]
    /\ th' = [th EXCEPT ![t] = IdleThread]
    /\ hist' = IF GetComponent(world, th[t].T, th[t].entity).panic
               THEN [hist EXCEPT !.panics = Append(@, <<t, "GetComponent", 317>>)]
               ELSE hist
    /\ UNCHANGED <<created, ret>>

\* Lines 312-321: the value is returned or the type assertion of line 317
\* panics; either way the deferred RUnlock of line 312 runs.
GetComponentReturn(t) ==
    /\ th[t].pc = "gc_comp"
    /\ world' = [world EXCEPT !.archetypes[th[t].archetype].mu = RUnlock(@, t)]
    /\ th' = [th EXCEPT ![t] = IdleThread]
    /\ hist' = IF GetComponent(world, th[t].T, th[t].entity).panic
               THEN [hist EXCEPT !.panics = Append(@, <<t, "GetComponent", 317>>)]
               ELSE hist
    /\ UNCHANGED <<created, ret>>

\* ---- Filter.Query, lines 470-509, with Iterator and Next ----

\* What a returning Query adds to the history.
queryReturned(h, t, result) ==
    LET f      == th[t].f
        missing(es) ==
                  \E e \in es :
                     /\ ContainsAll(SetAll(EmptyBitSet, componentIDs(created[e + 1])), f.include)
                     /\ ~Intersects(SetAll(EmptyBitSet, componentIDs(created[e + 1])), f.exclude)
                     /\ \A k \in DOMAIN result :
                           Range(result[k]) #
                             {componentMapOf(created[e + 1])[id] : id \in Range(Indices(f.include))}
        within == th[t].epoch = h.epoch
    IN  [h EXCEPT
           !.stale   = @ \/ missing(th[t].seen),
           !.lost    = @ \/ (th[t].epoch > 0 /\ missing(h.cleared[th[t].epoch])),
           !.changed = @ \/ (within /\ f \in DOMAIN h.first /\ Range(result) # Range(h.first[f])),
           !.first   = IF within /\ f \notin DOMAIN h.first THEN MapPut(@, f, result) ELSE @]

\* Lines 471-473.
QueryBegin(t) ==
    \E f \in ConcFilters :
        /\ begins(t)
        /\ canRLock(world.mu)
        /\ world' = [world EXCEPT !.mu = RLock(@, t)]
        /\ th' = [th EXCEPT ![t] =
                    [IdleThread EXCEPT !.pc = "q_look", !.f = f,
                                       !.cacheKey = cacheKeyOf(f),
                                       !.seen = returnedIDs, !.epoch = hist.epoch]]
        /\ hist' = [hist EXCEPT !.calls = @ + 1]
        /\ UNCHANGED <<created, ret>>

\* Lines 474-476 with a cache object: cache.mu.RLock(), then w.mu.RUnlock().
QueryLookupCached(t) ==
    /\ th[t].pc = "q_look"
    /\ th[t].cacheKey \in DOMAIN world.queryCache
    /\ canRLock(world.caches[world.queryCache[th[t].cacheKey]].mu)
    /\ IF RUnlockFatal(world.mu) THEN Fatal
       ELSE /\ world' = [world EXCEPT
                           !.caches[world.queryCache[th[t].cacheKey]].mu = RLock(@, t),
                           !.mu = RUnlock(@, t)]
            /\ th' = [th EXCEPT ![t].pc = "q_hit",
                                ![t].cache = world.queryCache[th[t].cacheKey]]
            /\ UNCHANGED <<created, ret, hist>>

\* Lines 474 and 483 without one.
QueryLookupAbsent(t) ==
    /\ th[t].pc = "q_look"
    /\ th[t].cacheKey \notin DOMAIN world.queryCache
    /\ IF RUnlockFatal(world.mu) THEN Fatal
       ELSE /\ world' = [world EXCEPT !.mu = RUnlock(@, t)]
            /\ th' = [th EXCEPT ![t].pc = "q_iter"]
            /\ UNCHANGED <<created, ret, hist>>

\* Lines 477-481: the cached rows are not nil and are returned.
QueryCached(t) ==
    /\ th[t].pc = "q_hit"
    /\ LET got == cachedResult(world, th[t].cache, th[t].cacheKey)
           thr == [th EXCEPT ![t] = IdleThread]
       IN  /\ got.ok
           /\ th' = thr
           /\ world' = collect([world EXCEPT !.caches[th[t].cache].mu = RUnlock(@, t)],
                               heldCaches(thr))
           /\ hist' = queryReturned(hist, t, got.result)
    /\ UNCHANGED <<created, ret>>

\* Lines 477-479 and 483: the cache object holds no rows under the key yet;
\* w.mu.RUnlock() runs a second time, after the one of line 476, on a lock
\* this thread does not hold.
QueryCachedNil(t) ==
    /\ th[t].pc = "q_hit"
    /\ ~cachedResult(world, th[t].cache, th[t].cacheKey).ok
    /\ IF RUnlockFatal(world.mu) THEN Fatal
       ELSE LET thr == [th EXCEPT ![t].pc = "q_iter", ![t].cache = 0]
            IN  /\ th' = thr
                /\ world' = collect([world EXCEPT
                                        !.caches[th[t].cache].mu = RUnlock(@, t),
                                        !.mu = RUnlock(@, t)],
                                    heldCaches(thr))
                /\ UNCHANGED <<created, ret, hist>>

\* Line 430, w.mu.RLock() of Iterator.
QueryIteratorRLock(t) ==
    /\ th[t].pc = "q_iter"
    /\ canRLock(world.mu)
    /\ world' = [world EXCEPT !.mu = RLock(@, t)]
    /\ th' = [th EXCEPT ![t].pc = "q_iter2"]
    /\ UNCHANGED <<created, ret, hist>>

\* Lines 431-466 and the first Next up to its first lock.
QueryIterator(t) ==
    /\ th[t].pc = "q_iter2"
    /\ IF RUnlockFatal(world.mu) THEN Fatal
       ELSE /\ world' = [world EXCEPT !.mu = RUnlock(@, t)]
            /\ LET run == runLocal(Iterator(world, th[t].f), <<>>)
               IN  th' = [th EXCEPT ![t].qi = run.qi, ![t].result = run.result,
                                    ![t].pc = IF run.done THEN "q_wlock" ELSE "n_rlock"]
            /\ UNCHANGED <<created, ret, hist>>

currentArchetypeOf(t) == th[t].qi.archetypes[th[t].qi.currentArchetype + 1]

\* Line 360, arch.mu.RLock().
NextRLock(t) ==
    /\ th[t].pc = "n_rlock"
    /\ canRLock(world.archetypes[currentArchetypeOf(t)].mu)
    /\ world' = [world EXCEPT !.archetypes[currentArchetypeOf(t)].mu = RLock(@, t)]
    /\ th' = [th EXCEPT ![t].pc = "n_cols", ![t].arrays = <<>>, ![t].allPresent = TRUE]
    /\ UNCHANGED <<created, ret, hist>>

\* Lines 364-371, one pass: GetComponentData takes the read lock again
\* (line 135), reads the column and releases it.
NextColumn(t) ==
    /\ th[t].pc = "n_cols"
    /\ canRLock(world.archetypes[currentArchetypeOf(t)].mu)
    /\ LET got == GetComponentData(world.archetypes[currentArchetypeOf(t)],
                                   th[t].qi.includeIDs[Len(th[t].arrays) + 1])
       IN  th' = [th EXCEPT
                    ![t].arrays = IF got.ok THEN Append(@, got.data) ELSE @,
                    ![t].allPresent = got.ok,
                    ![t].pc = IF got.ok /\ Len(th[t].arrays) + 1 < Len(th[t].qi.includeIDs)
                              THEN "n_cols" ELSE "n_count"]
    /\ UNCHANGED <<world, created, ret, hist>>

\* Lines 373-390, and the rows of this archetype (lines 392-416, 488-492).
NextSnapshot(t) ==
    /\ th[t].pc = "n_count"
    /\ world' = [world EXCEPT !.archetypes[currentArchetypeOf(t)].mu = RUnlock(@, t)]
    /\ LET entityCount == Len(world.archetypes[currentArchetypeOf(t)].entities)
           qi  == IF ~th[t].allPresent \/ entityCount = 0 THEN nextArchetype(th[t].qi)
                  ELSE [th[t].qi EXCEPT !.componentArrays = th[t].arrays]
           run == runLocal(qi, th[t].result)
       IN  th' = [th EXCEPT
                    ![t].qi = run.qi, ![t].result = run.result, ![t].arrays = <<>>,
                    ![t].snapshot = IF th[t].allPresent
                                    THEN [archetype |-> currentArchetypeOf(t),
                                          componentArrays |-> th[t].arrays,
                                          entityCount |-> entityCount]
                                    ELSE @,
                    ![t].pc = IF run.done THEN "q_wlock" ELSE "n_rlock"]
    /\ UNCHANGED <<created, ret, hist>>

\* Line 494, w.mu.Lock(): the writer announces itself.
QueryLockBegin(t) ==
    /\ th[t].pc = "q_wlock"
    /\ canLockBegin(world.mu)
    /\ world' = [world EXCEPT !.mu = LockBegin(@, t)]
    /\ th' = [th EXCEPT ![t].pc = "q_wlock2"]
    /\ UNCHANGED <<created, ret, hist>>

\* Lines 494-502 with the lock held.
QueryEnsureCache(t) ==
    /\ th[t].pc = "q_wlock2"
    /\ canLock(world.mu, t)
    /\ LET w1 == ensureCache(world, th[t].cacheKey, th[t].f)
       IN  /\ world' = [w1 EXCEPT !.mu = Unlock(@)]
           /\ th' = [th EXCEPT ![t].pc = "q_store",
                               ![t].cache = w1.queryCache[th[t].cacheKey]]
    /\ UNCHANGED <<created, ret, hist>>

\* Line 504, cache.mu.Lock(): the writer announces itself.
QueryStoreLockBegin(t) ==
    /\ th[t].pc = "q_store"
    /\ canLockBegin(world.caches[th[t].cache].mu)
    /\ world' = [world EXCEPT !.caches[th[t].cache].mu = LockBegin(@, t)]
    /\ th' = [th EXCEPT ![t].pc = "q_store2"]
    /\ UNCHANGED <<created, ret, hist>>

\* Lines 504-508.
QueryStore(t) ==
    /\ th[t].pc = "q_store2"
    /\ canLock(world.caches[th[t].cache].mu, t)
    /\ LET thr == [th EXCEPT ![t] = IdleThread]
           w1  == storeResult(world, th[t].cache, th[t].cacheKey, th[t].result)
       IN  /\ th' = thr
           /\ world' = collect([w1 EXCEPT !.caches[th[t].cache].mu = Unlock(@)],
                               heldCaches(thr))
    /\ hist' = queryReturned(hist, t, th[t].result)
    /\ UNCHANGED <<created, ret>>

\* ---- ClearQueryCache, lines 519-523 ----

ClearQueryCacheBegin(t) ==
    /\ begins(t)
    /\ canLockBegin(world.mu)
    /\ world' = [world EXCEPT !.mu = LockBegin(@, t)]
    /\ th' = [th EXCEPT ![t] = [IdleThread EXCEPT !.pc = "cl_lock", !.seen = returnedIDs]]
    /\ hist' = [hist EXCEPT !.calls = @ + 1]
    /\ UNCHANGED <<created, ret>>

ClearQueryCacheLocked(t) ==
    /\ th[t].pc = "cl_lock"
    /\ canLock(world.mu, t)
    /\ world' = collect([ClearQueryCache(world) EXCEPT !.mu = Unlock(@)], heldCaches(th))
    /\ th' = [th EXCEPT ![t] = IdleThread]
    /\ hist' = [hist EXCEPT !.epoch = @ + 1, !.first = EmptyMap,
                             !.cleared = Append(@, th[t].seen \cup
                                                   (IF @ = <<>> THEN {} ELSE @[Len(@)]))]
    /\ UNCHANGED <<created, ret>>

\* A step of a call in progress.
Continue(t) ==
    \/ CreateEntityLocked(t) \/ CreateEntityArchLockBegin(t) \/ CreateEntityAddRow(t)
    \/ CreateEntityAddComponent(t) \/ CreateEntityArchUnlock(t) \/ CreateEntityReturn(t)
    \/ GetComponentLookedUp(t) \/ GetComponentArchRLock(t) \/ GetComponentReturn(t)
    \/ QueryLookupCached(t) \/ QueryLookupAbsent(t) \/ QueryCached(t)
    \/ QueryCachedNil(t)
    \/ QueryIteratorRLock(t) \/ QueryIterator(t)
    \/ NextRLock(t) \/ NextColumn(t) \/ NextSnapshot(t)
    \/ QueryLockBegin(t) \/ QueryEnsureCache(t) \/ QueryStoreLockBegin(t) \/ QueryStore(t)
    \/ ClearQueryCacheLocked(t)

Begin(t) ==
    \/ CreateEntityBegin(t) \/ GetComponentBegin(t) \/ QueryBegin(t)
    \/ ClearQueryCacheBegin(t)

NextConc == \E t \in Threads : Begin(t) \/ Continue(t)

SpecConc == Init /\ [][NextConc]_vars

(***************************************************************************)
(* Calls that panic: specification SpecPanic.  The threads call            *)
(* CreateEntity with a value component, with a pointer component, with a   *)
(* nil Component and with an ID beyond the BitSet, and GetComponent with   *)
(* the value type and the pointer type of one ID; a caller recovers from   *)
(* the panic of its call and goes on.                                      *)
(***************************************************************************)
NextPanic ==
    \E t \in Threads :
        \/ CreateEntityWith(t, {<<Comp(1, FALSE, world.nextEntityID + 1)>>,
                                <<Comp(1, TRUE, world.nextEntityID + 1)>>,
                                <<NilComponent>>,
                                <<Comp(1, FALSE, world.nextEntityID + 1),
                                  Comp(128, FALSE, world.nextEntityID + 1)>>})
        \/ CreateEntityLocked(t) \/ CreateEntityArchLockBegin(t) \/ CreateEntityAddRow(t)
        \/ CreateEntityAddComponent(t) \/ CreateEntityArchUnlock(t) \/ CreateEntityReturn(t)
        \/ GetComponentOf(t, {[id |-> 1, ptr |-> FALSE], [id |-> 1, ptr |-> TRUE]})
        \/ GetComponentLookedUp(t) \/ GetComponentArchRLock(t) \/ GetComponentReturn(t)

SpecPanic == Init /\ [][NextPanic]_vars

(***************************************************************************)
(* Signatures alone: specification SpecBits.  Two BitSets a and b start    *)
(* empty, as in BitSetOperations, and each step calls Set on one of them   *)
(* with an ID of the first or the second word, set before or not; ret      *)
(* holds the two values, the IDs given to Set so far, and what the         *)
(* functions return for them (two Indices calls, and Has for every ID).    *)
(***************************************************************************)
InitBits ==
    /\ world = NewWorld
    /\ created = <<>>
    /\ ret = [op |-> "Set", a |-> EmptyBitSet, b |-> EmptyBitSet,
              aIDs |-> {}, bIDs |-> {},
              containsAll |-> TRUE, intersects |-> FALSE, equals |-> TRUE,
              indices |-> <<>>, again |-> <<>>, has |-> {}]
    /\ th = [t \in Threads |-> IdleThread]
    /\ hist = NoHistory

\* a.Set(index) or bs.Set(index), and then the calls of the benchmark loop.
SetCall ==
    \E index \in {0, 1, 63, 64, 65, 127}, which \in {"a", "b"} :
        LET a == IF which = "a" THEN Set(ret.a, index) ELSE ret.a
            b == IF which = "b" THEN Set(ret.b, index) ELSE ret.b
        IN  /\ ret' = [op |-> "Set", a |-> a, b |-> b,
                       aIDs |-> IF which = "a" THEN ret.aIDs \cup {index} ELSE ret.aIDs,
                       bIDs |-> IF which = "b" THEN ret.bIDs \cup {index} ELSE ret.bIDs,
                       containsAll |-> ContainsAll(a, b),
                       intersects  |-> Intersects(a, b),
                       equals      |-> Equals(a, b),
                       indices     |-> Indices(a),
                       again       |-> Indices(a),
                       has         |-> {i \in 0 .. (BitSetWords * WordBits - 1) : Has(a, i)}]
            /\ UNCHANGED <<world, created, th, hist>>

NextBits == SetCall

SpecBits == InitBits /\ [][NextBits]_vars

(***************************************************************************)
(* Systems: specification SpecSys.  The threads call AddSystems and        *)
(* Update; Update copies the slice under the read lock and then calls the  *)
(* systems with the lock released, one step per system.                    *)
(***************************************************************************)
BatchSizes == {1, 9}

DeltaTimes == {1, 2}

\* The systems handed to AddSystems calls that have not returned yet.
RECURSIVE pendingSystems(_)
pendingSystems(ts) ==
    IF ts = {} THEN 0
    ELSE LET t == CHOOSE x \in ts : TRUE
         IN  Len(th[t].batch) + pendingSystems(ts \ {t})

\* n systems that no call was given before.
newSystems(n) ==
    [i \in 1..n |-> Len(hist.registered) + pendingSystems(Threads) + i]

\* Line 273, w.mu.Lock(): the writer announces itself.
AddSystemsBegin(t) ==
    \E n \in BatchSizes :
        /\ begins(t)
        /\ canLockBegin(world.mu)
        /\ world' = [world EXCEPT !.mu = LockBegin(@, t)]
        /\ th' = [th EXCEPT ![t] = [IdleThread EXCEPT !.pc = "as_lock",
                                                      !.batch = newSystems(n)]]
        /\ hist' = [hist EXCEPT !.calls = @ + 1]
        /\ UNCHANGED <<created, ret>>

\* Lines 273-285: the lock is acquired, the systems are appended and the
\* deferred Unlock runs.
AddSystemsLocked(t) ==
    /\ th[t].pc = "as_lock"
    /\ canLock(world.mu, t)
    /\ world' = [AddSystems(world, th[t].batch) EXCEPT !.mu = Unlock(@)]
    /\ th' = [th EXCEPT ![t] = IdleThread]
    /\ hist' = [hist EXCEPT !.registered = @ \o th[t].batch]
    /\ UNCHANGED <<created, ret>>

\* Line 289, w.mu.RLock().
UpdateRLock(t) ==
    \E dt \in DeltaTimes :
        /\ begins(t)
        /\ canRLock(world.mu)
        /\ world' = [world EXCEPT !.mu = RLock(@, t)]
        /\ th' = [th EXCEPT ![t] = [IdleThread EXCEPT !.pc = "up_read", !.dt = dt,
                                                      !.registered = hist.registered]]
        /\ hist' = [hist EXCEPT !.calls = @ + 1]
        /\ UNCHANGED <<created, ret>>

\* A faulty variant of UpdateSnapshot: the read lock is kept while the
\* systems run.
UpdateSnapshot_KeepRLock(t) ==
    /\ th[t].pc = "up_read"
    /\ th' = [th EXCEPT ![t].pc = "up_run", ![t].systems = world.systems]
    /\ UNCHANGED <<world, created, ret, hist>>

\* Lines 290-291: systems := w.systems and w.mu.RUnlock().
UpdateSnapshot(t) ==
    /\ th[t].pc = "up_read"
    /\ IF RUnlockFatal(world.mu) THEN Fatal
       ELSE /\ world' = [world EXCEPT !.mu = RUnlock(@, t)]
            /\ th' = [th EXCEPT ![t].pc = "up_run", ![t].systems = world.systems]
            /\ UNCHANGED <<created, ret, hist>>

\* A faulty variant of UpdateSystem: the loop runs over w.systems as it is
\* now, not over the slice that Update copied.
UpdateSystem_Live(t) ==
    /\ th[t].pc = "up_run"
    /\ Len(th[t].invoked) < world.systems.len
    /\ th' = [th EXCEPT ![t].invoked =
                 Append(@, [system |-> systemAt(world, world.systems, Len(@) + 1),
                            dt     |-> th[t].dt])]
    /\ UNCHANGED <<world, created, ret, hist>>

\* Lines 293-295: one turn of the loop, system.Update(dt).
UpdateSystem(t) ==
    /\ th[t].pc = "up_run"
    /\ Len(th[t].invoked) < th[t].systems.len
    /\ th' = [th EXCEPT ![t].invoked =
                 Append(@, [system |-> systemAt(world, th[t].systems, Len(@) + 1),
                            dt     |-> th[t].dt])]
    /\ UNCHANGED <<world, created, ret, hist>>

\* Line 296: the loop is over and Update returns.
UpdateReturn(t) ==
    /\ th[t].pc = "up_run"
    /\ Len(th[t].invoked) = th[t].systems.len
    /\ ret' = [op |-> "Update", dt |-> th[t].dt, invoked |-> th[t].invoked,
               registered |-> th[t].registered]
    /\ th' = [th EXCEPT ![t] = IdleThread]
    /\ UNCHANGED <<world, created, hist>>

NextSys ==
    \E t \in Threads :
        \/ AddSystemsBegin(t) \/ AddSystemsLocked(t)
        \/ UpdateRLock(t) \/ UpdateSnapshot(t) \/ UpdateSystem(t) \/ UpdateReturn(t)

SpecSys == Init /\ [][NextSys]_vars

(***************************************************************************)
(* The scenario of three entities: specification SpecScenario.  A, B and C *)
(* are three distinct component IDs; two entities with {A, B} and one with *)
(* {A, C} are created in a fresh World, and then three filters are queried *)
(* in order.  ret holds the IDs and the number of rows of each Query.      *)
(***************************************************************************)
ScenarioIDs == {0, 1, 32, 63, 64, 96, 127}

ScenarioComponents(A, B, C, tag) ==
    <<  <<Comp(A, FALSE, tag), Comp(B, FALSE, tag)>>,
        <<Comp(A, FALSE, tag), Comp(B, FALSE, tag)>>,
        <<Comp(A, FALSE, tag), Comp(C, FALSE, tag)>>  >>

ScenarioFilters(A, B, C) ==
    <<NewFilter(<<A>>), NewFilter(<<A, B>>), Without(NewFilter(<<A>>), <<C>>)>>

InitScenario ==
    /\ world = NewWorld
    /\ created = <<>>
    /\ \E A, B, C \in ScenarioIDs :
          /\ A # B /\ A # C /\ B # C
          /\ ret = [op |-> "Scenario", A |-> A, B |-> B, C |-> C, rows |-> <<>>]
    /\ th = [t \in Threads |-> IdleThread]
    /\ hist = NoHistory

ScenarioCreateEntity ==
    /\ ret.op = "Scenario"
    /\ Len(created) < 3
    /\ LET components == ScenarioComponents(ret.A, ret.B, ret.C,
                                            world.nextEntityID + 1)[Len(created) + 1]
       IN  \E order \in RangeOrders(Range(componentIDs(components))) :
              /\ world' = createEntity(world, components, order)
              /\ created' = Append(created, components)
    /\ UNCHANGED <<ret, th, hist>>

ScenarioQuery ==
    /\ ret.op = "Scenario"
    /\ Len(created) = 3
    /\ Len(ret.rows) < 3
    /\ LET f == ScenarioFilters(ret.A, ret.B, ret.C)[Len(ret.rows) + 1]
       IN  /\ world' = Query(world, f).world
           /\ ret' = [ret EXCEPT !.rows = Append(@, Len(Query(world, f).result))]
    /\ UNCHANGED <<created, th, hist>>

NextScenario == ScenarioCreateEntity \/ ScenarioQuery

SpecScenario == InitScenario /\ [][NextScenario]_vars

(***************************************************************************)
(* The type registry with concurrent callers: specification SpecReg.       *)
(***************************************************************************)
MaxTypes == 3

\* r.mu.Lock() is called.
GetComponentIDBegin(t) ==
    \E type \in 1..MaxTypes :
        /\ begins(t)
        /\ th' = [th EXCEPT ![t] = [IdleThread EXCEPT !.pc = "reg_lock", !.rtype = type]]
        /\ hist' = [hist EXCEPT !.calls = @ + 1]
        /\ UNCHANGED <<world, created, ret>>

\* r.mu.Lock() returns: the mutex was free.
GetComponentIDLock(t) ==
    /\ th[t].pc = "reg_lock"
    /\ world.registry.mu = 0
    /\ world' = [world EXCEPT !.registry.mu = t]
    /\ th' = [th EXCEPT ![t].pc = "reg_body"]
    /\ hist' = [hist EXCEPT !.firstUse =
                   IF th[t].rtype \in DOMAIN world.registry.typeToID THEN @
                   ELSE Append(@, th[t].rtype)]
    /\ UNCHANGED <<created, ret>>

\* The body, the deferred Unlock and the return.
GetComponentIDReturn(t) ==
    /\ th[t].pc = "reg_body"
    /\ LET got == GetComponentID(world.registry, th[t].rtype)
       IN  /\ world' = [world EXCEPT !.registry = [got.registry EXCEPT !.mu = 0]]
           /\ hist' = [hist EXCEPT !.assigned =
                          Append(@, [thread |-> t, type |-> th[t].rtype, id |-> got.id])]
    /\ th' = [th EXCEPT ![t] = IdleThread]
    /\ UNCHANGED <<created, ret>>

NextReg ==
    \E t \in Threads :
        GetComponentIDBegin(t) \/ GetComponentIDLock(t) \/ GetComponentIDReturn(t)

SpecReg == Init /\ [][NextReg]_vars

(***************************************************************************)
(* Registering many types, one caller: specification SpecRegFill.  The     *)
(* types are numbered in the order of their first registration.            *)
(***************************************************************************)
MaxRegistered == 130

\* GetComponentID for the first type again or for a type not seen before.
GetComponentIDCall ==
    \E type \in {1, world.registry.nextID + 1} :
        /\ type <= MaxRegistered
        /\ LET got == GetComponentID(world.registry, type)
           IN  /\ world' = [world EXCEPT !.registry = got.registry]
               /\ ret' = [op |-> "GetComponentID", type |-> type, id |-> got.id,
                          seen |-> got.registry.nextID, err |-> Nil]
        /\ UNCHANGED <<created, th, hist>>

\* RegisterComponentType[T](id) with an ID chosen by the caller.
RegisterComponentTypeCall ==
    \E id \in {0, WordBits * BitSetWords - 1, WordBits * BitSetWords} :
        /\ world' = [world EXCEPT !.componentTypes = RegisterComponentType(@, id)]
        /\ ret' = [op |-> "RegisterComponentType", id |-> id, err |-> Nil]
        /\ UNCHANGED <<created, th, hist>>

NextRegFill == GetComponentIDCall \/ RegisterComponentTypeCall

SpecRegFill == Init /\ [][NextRegFill]_vars

(***************************************************************************)
(* One frame with callbacks: specification SpecFrame.  Thread 1 registers  *)
(* systems and runs Update, no other goroutine runs, and the system that   *)
(* Update has called makes calls on the same World before it returns, as   *)
(* InputSystem.Update does with Query.  Such a call takes w.mu as the      *)
(* functions do: Lock (CreateEntity, AddSystems, ClearQueryCache, and      *)
(* Query for its store) waits for every read lock, also one of the calling *)
(* thread; RLock (GetComponent, Iterator) waits for a writer.  With one    *)
(* thread a call that gets its locks runs to its return.  GetComponent is  *)
(* called with the type arguments with which it returns.                   *)
(***************************************************************************)
SystemCall(t) ==
    /\ th[t].pc = "up_run"
    /\ Len(th[t].invoked) < th[t].systems.len
    /\ hist.calls < MaxCalls
    /\ canRLock(world.mu)
    /\ \/ /\ readerCount(world.mu) = 0
          /\ world.nextEntityID < MaxEntities
          /\ \E components \in ConcLists(world.nextEntityID + 1) :
               \E order \in RangeOrders(Range(componentIDs(components))) :
                  /\ world' = createEntity(world, components, order)
                  /\ created' = Append(created, components)
                  /\ ret' = [op |-> "CreateEntity", entity |-> world.nextEntityID]
          /\ hist' = [hist EXCEPT !.calls = @ + 1]
       \/ /\ readerCount(world.mu) = 0
          /\ world' = AddSystems(world, newSystems(1))
          /\ ret' = [op |-> "AddSystems"]
          /\ hist' = [hist EXCEPT !.calls = @ + 1, !.registered = @ \o newSystems(1),
                                   !.nested = @ \cup Range(newSystems(1))]
          /\ UNCHANGED created
       \/ /\ readerCount(world.mu) = 0
          /\ world' = collect(ClearQueryCache(world), {})
          /\ ret' = [op |-> "ClearQueryCache"]
          /\ hist' = [hist EXCEPT !.calls = @ + 1]
          /\ UNCHANGED created
       \/ /\ readerCount(world.mu) = 0
          /\ \E f \in ConcFilters :
               /\ world' = Query(world, f).world
               /\ ret' = [op |-> "Query", filter |-> f, result |-> Query(world, f).result]
          /\ hist' = [hist EXCEPT !.calls = @ + 1]
          /\ UNCHANGED created
       \/ /\ \E f \in ConcFilters :
               ret' = [op |-> "Iterator", filter |-> f,
                       result |-> drain(world, Iterator(world, f), <<>>)]
          /\ hist' = [hist EXCEPT !.calls = @ + 1]
          /\ UNCHANGED <<world, created>>
       \/ /\ \E T \in ConcTypes, entity \in 0 .. MaxEntities :
               ret' = [op |-> "GetComponent", T |-> T, entity |-> entity,
                       out |-> GetComponent(world, T, entity)]
          /\ hist' = [hist EXCEPT !.calls = @ + 1]
          /\ UNCHANGED <<world, created>>
    /\ UNCHANGED th

NextFrame ==
    \/ AddSystemsBegin(1) \/ AddSystemsLocked(1)
    \/ UpdateRLock(1) \/ UpdateSnapshot(1) \/ SystemCall(1)
    \/ UpdateSystem(1) \/ UpdateReturn(1)

\* Update goes on when it can: its lock steps are not delayed for ever, and
\* a system whose calls have returned returns.
SpecFrame ==
    /\ Init /\ [][NextFrame]_vars
    /\ WF_vars(UpdateSnapshot(1)) /\ WF_vars(UpdateSystem(1)) /\ WF_vars(UpdateReturn(1))

(***************************************************************************)
(* Calls with unusual arguments: specification SpecEdge.  One driver gives *)
(* CreateEntity lists with an ID twice or with an ID beyond the BitSet,    *)
(* and builds filters with such IDs, with IDs that no entity has and with  *)
(* no IDs.  ret tells how the call ended: panic, the error value it gave   *)
(* the caller (the functions have no error result: Nil) and, for           *)
(* CreateEntity, the World before the call.                                *)
(***************************************************************************)
EdgeLists(tag) ==
    {<<>>, <<Comp(1, FALSE, tag)>>, <<Comp(96, FALSE, tag)>>,
     <<Comp(0, FALSE, tag), Comp(1, FALSE, tag)>>,
     <<Comp(1, FALSE, tag), Comp(1, FALSE, ZeroVal)>>,
     <<Comp(128, FALSE, tag)>>, <<Comp(1, FALSE, tag), Comp(128, FALSE, tag)>>}

\* The arguments of NewFilter(include...).Without(exclude...).
EdgeFilterArgs ==
    [include : {<<>>, <<1>>, <<96>>, <<128>>}, exclude : {<<>>, <<0>>, <<128>>}]

\* Lines 28-31: some Set call of the IDs indexes beyond the array.
anySetPanics(ids) == \E i \in DOMAIN ids : SetPanics(ids[i])

\* Lines 246-270; a panic of signature.Set (line 251) comes before the lock.
EdgeCreateEntity ==
    \E components \in EdgeLists(world.nextEntityID + 1) :
        /\ world.nextEntityID < MaxEntities
        /\ IF anySetPanics(componentIDs(components))
           THEN /\ ret' = [op |-> "CreateEntity", components |-> components,
                           panic |-> TRUE, err |-> Nil, before |-> world]
                /\ UNCHANGED <<world, created>>
           ELSE \E order \in RangeOrders(Range(componentIDs(components))) :
                  /\ world' = createEntity(world, components, order)
                  /\ created' = Append(created, components)
                  /\ ret' = [op |-> "CreateEntity", components |-> components,
                             panic |-> FALSE, err |-> Nil, before |-> world,
                             entity |-> world.nextEntityID]
        /\ UNCHANGED <<th, hist>>

\* NewFilter and Without (lines 329-342), then Query (lines 470-509) or
\* Iterator with the Next loop (lines 429-467, 355-421).
EdgeFilterCall ==
    \E args \in EdgeFilterArgs, op \in {"Query", "Iterator"} :
        /\ IF anySetPanics(args.include \o args.exclude)
           THEN /\ ret' = [op |-> "NewFilter", args |-> args, panic |-> TRUE, err |-> Nil]
                /\ UNCHANGED world
           ELSE LET f == Without(NewFilter(args.include), args.exclude)
                IN  /\ op = "Query" =>
                          \/ cacheHit(world, cacheKeyOf(f))
                          \/ Cardinality(DOMAIN world.queryCache) < MaxCached
                    /\ world' = IF op = "Query" THEN Query(world, f).world ELSE world
                    /\ ret' = [op |-> op, args |-> args, filter |-> f,
                               panic |-> FALSE, err |-> Nil,
                               result |-> IF op = "Query" THEN Query(world, f).result
                                          ELSE drain(world, Iterator(world, f), <<>>)]
        /\ UNCHANGED <<created, th, hist>>

NextEdge == EdgeCreateEntity \/ EdgeFilterCall \/ ClearQueryCacheCall

SpecEdge == Init /\ [][NextEdge]_vars

(***************************************************************************)
(* What the calls so far say about the entities: entity e was created by   *)
(* the call created[e + 1].                                                *)
(***************************************************************************)
Entities == {i - 1 : i \in DOMAIN created}

signatureOf(e) == SetAll(EmptyBitSet, componentIDs(created[e + 1]))

matchingEntities(f) ==
    {e \in Entities : ContainsAll(signatureOf(e), f.include)
                      /\ ~Intersects(signatureOf(e), f.exclude)}

\* The components of entity e that a row for filter f holds.
rowComponents(e, f) ==
    {componentMapOf(created[e + 1])[id] : id \in Range(Indices(f.include))}

\* result holds one row for each entity of es and nothing else.
oneRowPerEntity(result, es, f) ==
    /\ Len(result) = Cardinality(es)
    /\ \A e \in es : \E k \in DOMAIN result : Range(result[k]) = rowComponents(e, f)

(***************************************************************************)
(* C1.  Every Filter.Query with a non-empty include-set I and exclude-set  *)
(* X returns exactly one row per entity whose signature contains all of I  *)
(* and does not intersect X, whatever CreateEntity and Query calls came    *)
(* before.                                                                 *)
(***************************************************************************)
C1_QueryReturnsMatching ==
    (ret.op = "Query" /\ ret.filter.include # EmptyBitSet)
        => oneRowPerEntity(ret.result, matchingEntities(ret.filter), ret.filter)

(***************************************************************************)
(* C2.  No two archetypes of the World have equal signatures, and two      *)
(* entities created with the same set of component IDs are in the same     *)
(* archetype.                                                              *)
(***************************************************************************)
C2_OneArchetypePerSignature ==
    /\ \A i, j \in DOMAIN world.archetypes :
          Equals(world.archetypes[i].signature, world.archetypes[j].signature) => i = j
    /\ \A d, e \in DOMAIN world.entityData :
          Equals(signatureOf(d), signatureOf(e))
              => world.entityData[d].archetype = world.entityData[e].archetype

(***************************************************************************)
(* C3.  GetComponent[T] on an entity created with a component V of type T  *)
(* returns V, at once and after later CreateEntity calls, for value types  *)
(* and for pointer types.                                                  *)
(***************************************************************************)
C3_RoundTrip ==
    (ret.op = "GetComponent" /\ ret.entity \in Entities)
        => \A i \in DOMAIN created[ret.entity + 1] :
              LET V == created[ret.entity + 1][i]
              IN  TypeOf(V) = ret.T => ret.out = Returned(V.val)

(***************************************************************************)
(* Properties of concurrent callers.                                       *)
(***************************************************************************)
AllIdle == \A t \in Threads : th[t].pc = "idle"

RECURSIVE returnedCount(_)
returnedCount(ts) ==
    IF ts = {} THEN 0
    ELSE LET t == CHOOSE x \in ts : TRUE
         IN  Len(hist.returned[t]) + returnedCount(ts \ {t})

\* The threads that have taken an EntityID and not yet returned it.
creating == {t \in Threads : th[t].pc \in {"ce_add", "ce_alock", "ce_cols", "ce_data"}}

(***************************************************************************)
(* C4.  When the threads have each called CreateEntity some number of      *)
(* times concurrently and all calls have returned, the entity map holds    *)
(* one entry per call (T*K for T threads with K calls each), and every     *)
(* archetype has as many rows as there are EntityData entries pointing at  *)
(* it.                                                                     *)
(***************************************************************************)
C4_ConcurrentCreation ==
    AllIdle =>
        /\ Cardinality(DOMAIN world.entityData) = returnedCount(Threads)
        /\ \A a \in DOMAIN world.archetypes :
              Len(world.archetypes[a].entities) =
                  Cardinality({e \in DOMAIN world.entityData :
                                   world.entityData[e].archetype = a})

\* Two threads have each created two entities and all calls have returned.
C4_Witness ==
    /\ AllIdle
    /\ \A t \in Threads : Len(hist.returned[t]) = 2
    /\ Cardinality(DOMAIN world.entityData) = 4

(***************************************************************************)
(* C5.  No set of threads ends up waiting on each other's World, Archetype *)
(* or cache locks forever: whenever calls are in progress, one of them can *)
(* take its next step.                                                     *)
(***************************************************************************)
C5_NoDeadlock ==
    (\E t \in Threads : th[t].pc # "idle")
        => \E t \in Threads : th[t].pc # "idle" /\ ENABLED Continue(t)

(***************************************************************************)
(* C6.  No EntityID is handed out twice: the IDs that CreateEntity calls   *)
(* returned or have taken, over all threads, are pairwise distinct, and    *)
(* the counter is past every one of them.                                  *)
(***************************************************************************)
C6_FreshEntityIDs ==
    /\ \A t, u \in Threads : \A i \in DOMAIN hist.returned[t], j \in DOMAIN hist.returned[u] :
          hist.returned[t][i] = hist.returned[u][j] => (t = u /\ i = j)
    /\ \A t \in creating :
          /\ \A u \in creating : th[t].entityID = th[u].entityID => t = u
          /\ th[t].entityID \notin returnedIDs
    /\ \A id \in returnedIDs \cup {th[t].entityID : t \in creating} :
          id < world.nextEntityID

\* Both threads got IDs back while another call holds a third.
C6_Witness ==
    /\ \A t \in Threads : hist.returned[t] # <<>>
    /\ creating # {}

(***************************************************************************)
(* C8.  A reader running beside CreateEntity sees a new row in every       *)
(* column and in the entity list, or in none: the columns Next reads of an *)
(* archetype all have the length of its entity list as read, and the row   *)
(* GetComponent reads is there in every column.                            *)
(***************************************************************************)
C8_RowWholeOrAbsent ==
    \A t \in Threads :
        /\ th[t].pc \in {"n_cols", "n_count"} =>
              \A i \in DOMAIN th[t].arrays : Len(th[t].arrays[i]) = Len(th[t].arrays[1])
        /\ \A i \in DOMAIN th[t].snapshot.componentArrays :
              Len(th[t].snapshot.componentArrays[i]) = th[t].snapshot.entityCount
        /\ th[t].pc = "gc_comp" =>
              /\ th[t].data.index < Len(archetypeOf(t).entities)
              /\ archetypeOf(t).entities[th[t].data.index + 1] = th[t].entity
              /\ \A i \in DOMAIN archetypeOf(t).components :
                    th[t].data.index < Len(archetypeOf(t).components[i].data)

\* Next has read two non-empty columns of an archetype that a CreateEntity
\* in progress is about to extend.
C8_Witness ==
    \E t, u \in Threads :
        /\ th[t].pc = "n_count"
        /\ Len(th[t].arrays) = 2
        /\ th[t].arrays[1] # <<>>
        /\ th[u].pc \in {"ce_add", "ce_alock"}
        /\ th[u].archetype = currentArchetypeOf(t)

(***************************************************************************)
(* C9.  Filter.Query follows one cache semantics in every history: either  *)
(* every result holds all entities created before the call, or every Query *)
(* of a filter between two ClearQueryCache calls returns the rows of the   *)
(* first; no history has both a Query that misses an earlier entity and a  *)
(* Query whose rows differ from the first.                                 *)
(***************************************************************************)
C9_OneCacheSemantics == ~(hist.stale /\ hist.changed)

(***************************************************************************)
(* C7.  For three distinct component IDs A, B and C below 128: after two   *)
(* entities with {A, B} and one with {A, C} were created in a fresh World, *)
(* Query gives, in this order, 3 rows for include {A}, 2 rows for include  *)
(* {A, B} and 2 rows for include {A} with exclude {C}.                     *)
(***************************************************************************)
C7_ScenarioRows ==
    ret.op = "Scenario" =>
        \A i \in DOMAIN ret.rows : ret.rows[i] = <<3, 2, 2>>[i]

(***************************************************************************)
(* C10.  Update(dt) calls Update on every system of the AddSystems calls   *)
(* that returned before it began, once each and in the order of their      *)
(* registration, also when AddSystems moved the slice to a new array, and  *)
(* every call it makes gets dt.                                            *)
(***************************************************************************)
C10_UpdateRunsSystemsInOrder ==
    /\ \A t \in Threads : th[t].pc = "up_run" =>
          \A i \in DOMAIN th[t].invoked :
              /\ th[t].invoked[i].dt = th[t].dt
              /\ i <= Len(th[t].registered)
                    => th[t].invoked[i].system = th[t].registered[i]
    /\ ret.op = "Update" =>
          /\ Len(ret.invoked) >= Len(ret.registered)
          /\ \A j \in DOMAIN ret.invoked : ret.invoked[j].dt = ret.dt
          /\ \A i \in DOMAIN ret.registered :
                /\ ret.invoked[i].system = ret.registered[i]
                /\ Cardinality({j \in DOMAIN ret.invoked :
                                   ret.invoked[j].system = ret.registered[i]}) = 1

\* An Update that began after two AddSystems calls had outgrown the first
\* array has returned, and a third AddSystems call returned meanwhile.
C10_Witness ==
    /\ ret.op = "Update"
    /\ Len(ret.registered) > SystemsCap
    /\ Len(ret.invoked) = Len(ret.registered)
    /\ Len(hist.registered) > Len(ret.registered)

(***************************************************************************)
(* Rows.  wellFormedRow: the row has one entry per ID of the include-set,  *)
(* in ascending order of the IDs, and all entries are components of one    *)
(* entity.                                                                 *)
(***************************************************************************)
wellFormedRow(row, f) ==
    /\ componentIDs(row) = Indices(f.include)
    /\ \E e \in Entities : \A i \in DOMAIN row :
          /\ row[i].id \in DOMAIN componentMapOf(created[e + 1])
          /\ row[i] = componentMapOf(created[e + 1])[row[i].id]

\* The rows that Iterator and Next give for f in the current World.
iteratorRows(f) == drain(world, Iterator(world, f), <<>>)

(***************************************************************************)
(* C11.  Every row that Filter.Query returns, and every row that an        *)
(* iterator gives, has one entry per included component ID, in ascending   *)
(* ID order whatever the order of the IDs given to NewFilter or of the     *)
(* components given to CreateEntity or of the archetype's columns, and all *)
(* its entries belong to one entity.                                       *)
(***************************************************************************)
C11_RowsInIDOrder ==
    /\ ret.op = "Query" =>
          \A k \in DOMAIN ret.result : wellFormedRow(ret.result[k], ret.filter)
    /\ \A f \in Filters :
          \A k \in DOMAIN iteratorRows(f) : wellFormedRow(iteratorRows(f)[k], f)

(***************************************************************************)
(* C12.  A Filter with an empty include-set gives no rows, from Query and  *)
(* from Iterator, whatever its exclude-set and whatever entities exist,    *)
(* entities without components among them.                                 *)
(***************************************************************************)
C12_EmptyIncludeNoRows ==
    (ret.op \in {"Query", "Iterator"} /\ ret.args.include = <<>>)
        => ret.result = <<>>

(***************************************************************************)
(* C13.  Building a filter does not panic for any component ID, and Query  *)
(* and Iterator with an included ID that no entity has return no rows and  *)
(* no error.                                                               *)
(***************************************************************************)
C13_UnknownIDNoRows ==
    /\ ret.op = "NewFilter" => ~ret.panic
    /\ (/\ ret.op \in {"Query", "Iterator"}
        /\ \E i \in DOMAIN ret.args.include :
              \A e \in Entities : ret.args.include[i] \notin Range(componentIDs(created[e + 1])))
          => (ret.result = <<>> /\ ret.err = Nil)

(***************************************************************************)
(* C14.  GetComponent for an EntityID that was never created, or for an    *)
(* entity without a component of the requested ID, ends with a failure     *)
(* that the caller can tell from the read of a stored component whose      *)
(* value is the zero value: it does not panic and does not return the zero *)
(* value as a successful read does.                                        *)
(***************************************************************************)
C14_FailureToldApart ==
    (/\ ret.op = "GetComponent"
     /\ \/ ret.entity \notin Entities
        \/ ret.T.id \notin Range(componentIDs(created[ret.entity + 1])))
        => (~ret.out.panic /\ ret.out # Returned(ZeroVal))

(***************************************************************************)
(* C15.  GetComponent never panics, for existing and unknown EntityIDs,    *)
(* for value and pointer types T, and when the stored value under T's ID   *)
(* has another dynamic type than T.                                        *)
(***************************************************************************)
C15_GetComponentNoPanic == ret.op = "GetComponent" => ~ret.out.panic

(***************************************************************************)
(* C16.  CreateEntity with two components of the same component ID gives   *)
(* the caller a DuplicateComponent error, creates no entity and leaves the *)
(* World as it was.                                                        *)
(***************************************************************************)
C16_DuplicateComponent ==
    (/\ ret.op = "CreateEntity"
     /\ \E i, j \in DOMAIN ret.components :
           i # j /\ ret.components[i].id = ret.components[j].id)
        => (ret.err = "DuplicateComponent" /\ world = ret.before)

(***************************************************************************)
(* C17.  A component ID of 128 or more given to NewFilter, Without or      *)
(* CreateEntity (and so to BitSet.Set) gives the caller an                 *)
(* InvalidComponentID failure and no panic.                                *)
(***************************************************************************)
C17_InvalidComponentID ==
    (\/ ret.op = "NewFilter"
     \/ /\ ret.op = "CreateEntity"
        /\ \E i \in DOMAIN ret.components :
              ret.components[i].id >= WordBits * BitSetWords)
        => (~ret.panic /\ ret.err = "InvalidComponentID")

(***************************************************************************)
(* C18.  For GetComponentID under any interleaving of calls: the same type *)
(* always gets the same ID, two different types never get the same ID, and *)
(* once n distinct types were seen the IDs given out are exactly 0..n-1,   *)
(* in the order of first use.                                              *)
(***************************************************************************)
C18_RegistryIDs ==
    /\ \A i, j \in DOMAIN hist.assigned :
          (hist.assigned[i].type = hist.assigned[j].type)
              <=> (hist.assigned[i].id = hist.assigned[j].id)
    /\ \A i \in DOMAIN hist.assigned :
          \E k \in DOMAIN hist.firstUse :
              hist.firstUse[k] = hist.assigned[i].type /\ hist.assigned[i].id = k - 1
    /\ AllIdle =>
          /\ DOMAIN world.registry.typeToID = Range(hist.firstUse)
          /\ \A k \in DOMAIN hist.firstUse : world.registry.typeToID[hist.firstUse[k]] = k - 1
          /\ world.registry.nextID = Len(hist.firstUse)

\* Both threads got IDs, one type was asked for twice, and all types have
\* an ID.
C18_Witness ==
    /\ AllIdle
    /\ Len(hist.firstUse) = MaxTypes
    /\ \E i, j \in DOMAIN hist.assigned :
          /\ i # j
          /\ hist.assigned[i].type = hist.assigned[j].type
          /\ hist.assigned[i].thread # hist.assigned[j].thread

(***************************************************************************)
(* C19.  Registering more distinct component types than the signature has  *)
(* bits gives a TooManyComponentTypes error, and no type gets an ID at or  *)
(* above that width.                                                       *)
(***************************************************************************)
C19_TooManyComponentTypes ==
    /\ \A t \in DOMAIN world.registry.typeToID :
          world.registry.typeToID[t] < WordBits * BitSetWords
    /\ \A id \in DOMAIN world.componentTypes : id < WordBits * BitSetWords
    /\ (ret.op = "GetComponentID" /\ ret.seen > WordBits * BitSetWords)
          => ret.err = "TooManyComponentTypes"
    /\ (ret.op = "RegisterComponentType" /\ ret.id >= WordBits * BitSetWords)
          => ret.err = "TooManyComponentTypes"

(***************************************************************************)
(* The columns of archetype a agree with its entity list: there is one     *)
(* column for each ID of the signature, each column is as long as the      *)
(* entity list, and row r of the column of ID c is the component with ID c *)
(* of the CreateEntity call that created entities[r].                      *)
(***************************************************************************)
columnsMatchRows(a) ==
    /\ DOMAIN a.compIndex = Range(Indices(a.signature))
    /\ Len(a.components) = Cardinality(DOMAIN a.compIndex)
    /\ \A c \in DOMAIN a.compIndex :
          LET column == GetComponentData(a, c)
          IN  /\ column.ok
              /\ a.components[a.compIndex[c] + 1].id = c
              /\ Len(column.data) = Len(a.entities)
              /\ \A r \in DOMAIN a.entities :
                    LET passed == componentMapOf(created[a.entities[r] + 1])
                    IN  c \in DOMAIN passed /\ column.data[r] = passed[c]

(***************************************************************************)
(* C20, as stated.  In every reachable state of the World, for every       *)
(* Archetype: each column is as long as the entity list, and the value of  *)
(* the column of component ID c in row r is the component with ID c that   *)
(* was passed to the CreateEntity call that created entities[r].           *)
(***************************************************************************)
C20_ColumnsMatchRowsAlways ==
    \A k \in DOMAIN world.archetypes : columnsMatchRows(world.archetypes[k])

(***************************************************************************)
(* C20, amended.  The same for every Archetype whose mutex is not held by  *)
(* a writer, that is, on which no AddEntity is between a.mu.Lock() and the *)
(* deferred a.mu.Unlock().                                                 *)
(***************************************************************************)
C20_ColumnsMatchRows ==
    \A k \in DOMAIN world.archetypes :
        ~world.archetypes[k].mu.held => columnsMatchRows(world.archetypes[k])

\* An archetype with two columns and two rows whose mutex is free, while
\* AddEntity holds the mutex of another archetype.
C20_Witness ==
    \E k, l \in DOMAIN world.archetypes :
        /\ ~world.archetypes[k].mu.held
        /\ Len(world.archetypes[k].components) >= 2
        /\ Len(world.archetypes[k].entities) >= 2
        /\ world.archetypes[l].mu.held

(***************************************************************************)
(* C21.  Every EntityID of the entity map points to an Archetype that is   *)
(* in the World's archetype list and that the lookup by signature hash     *)
(* still finds, and the entity list of that archetype holds the EntityID   *)
(* at the recorded row index.                                              *)
(***************************************************************************)
C21_EntityDataConsistent ==
    \A e \in DOMAIN world.entityData :
        LET d == world.entityData[e]
        IN  /\ d.archetype \in DOMAIN world.archetypes
            /\ LET a == world.archetypes[d.archetype]
               IN  /\ Hash(a.signature) \in DOMAIN world.archetypeMap
                   /\ world.archetypeMap[Hash(a.signature)] = d.archetype
                   /\ d.index + 1 \in DOMAIN a.entities
                   /\ a.entities[d.index + 1] = e

(***************************************************************************)
(* C22.  Every entity is stored in an archetype whose signature is exactly *)
(* the set of component IDs the entity was created with; an archetype of   *)
(* another signature with the same hash is not reused, so entities of      *)
(* different signatures are never in one archetype.                        *)
(***************************************************************************)
C22_NoReuseOnCollision ==
    /\ \A e \in DOMAIN world.entityData :
          Equals(world.archetypes[world.entityData[e].archetype].signature, signatureOf(e))
    /\ \A d, e \in DOMAIN world.entityData :
          world.entityData[d].archetype = world.entityData[e].archetype
              => Equals(signatureOf(d), signatureOf(e))

\* Two entities whose signatures differ and have the same hash.
C22_Witness ==
    \E d, e \in DOMAIN world.entityData :
        /\ ~Equals(signatureOf(d), signatureOf(e))
        /\ Hash(signatureOf(d)) = Hash(signatureOf(e))
        /\ d < e

(***************************************************************************)
(* C23.  The query cache is keyed by the (include, exclude) pair: a Query  *)
(* call that returns a row set from the cache returns one that was         *)
(* computed and stored for a filter with the same include-set and the same *)
(* exclude-set.                                                            *)
(***************************************************************************)
C23_CacheKeyedByFilter ==
    [][(ret'.op = "Query" /\ ret' # ret /\ cacheHit(world, cacheKeyOf(ret'.filter)))
          => world.caches[world.queryCache[cacheKeyOf(ret'.filter)]].filter = ret'.filter]_vars

(***************************************************************************)
(* C24.  For every filter with a non-empty include-set, in every state     *)
(* between calls: the archetypes that Iterator selects from the shortest   *)
(* per-component list are exactly those that a scan over all archetypes of *)
(* the World selects with ContainsAll(include) and not Intersects(exclude),*)
(* each once, and draining the iterator gives exactly one row per entity   *)
(* of those archetypes, whatever the query cache holds.                    *)
(***************************************************************************)
C24_IteratorEqualsScan ==
    \A f \in Filters :
        f.include # EmptyBitSet =>
            LET selected == Iterator(world, f).archetypes
                scan     == {k \in DOMAIN world.archetypes :
                                /\ ContainsAll(world.archetypes[k].signature, f.include)
                                /\ ~Intersects(world.archetypes[k].signature, f.exclude)}
            IN  /\ Range(selected) = scan
                /\ Len(selected) = Cardinality(scan)
                /\ oneRowPerEntity(iteratorRows(f),
                                   {e \in DOMAIN world.entityData :
                                       world.entityData[e].archetype \in scan}, f)

\* A filter for which the scan selects some archetypes with rows and leaves
\* out an archetype of the shortest list, while the cache holds other rows
\* under the filter's key.
C24_Witness ==
    \E f \in Filters :
        /\ f.include # EmptyBitSet
        /\ Iterator(world, f).archetypes # <<>>
        /\ Len(iteratorRows(f)) >= 2
        /\ \E i \in DOMAIN Indices(f.include) :
              /\ Indices(f.include)[i] \in DOMAIN world.archetypesByComponent
              /\ \A j \in DOMAIN Indices(f.include) :
                    Len(world.archetypesByComponent[Indices(f.include)[i]])
                        <= Len(world.archetypesByComponent[Indices(f.include)[j]])
              /\ Len(world.archetypesByComponent[Indices(f.include)[i]])
                    > Len(Iterator(world, f).archetypes)
        /\ cacheHit(world, cacheKeyOf(f))
        /\ Query(world, f).result # iteratorRows(f)

(***************************************************************************)
(* C25.  After a ClearQueryCache call has returned, every Query that       *)
(* begins and returns later gives rows that contain every matching entity  *)
(* whose CreateEntity call returned before that ClearQueryCache call       *)
(* began, also when another Query was in progress meanwhile.               *)
(***************************************************************************)
C25_FreshAfterClear == ~hist.lost

(***************************************************************************)
(* C26.  When Filter.Iterator, QueryIterator.Next or Filter.Query has      *)
(* returned to its caller, the calling thread holds neither the World lock *)
(* nor an Archetype lock nor a cache lock, for reading or for writing.     *)
(* A thread is there when it is idle, when Iterator or Next has returned   *)
(* and the next Next has not taken its lock, and when the iteration is     *)
(* over and Query has not called w.mu.Lock() yet.                          *)
(***************************************************************************)
C26_NoLockHeldOutside ==
    \A t \in Threads :
        th[t].pc \in {"idle", "n_rlock", "q_wlock"} =>
            LET free(mu) == mu.readers[t] = 0 /\ mu.writer # t
            IN  /\ free(world.mu)
                /\ \A k \in DOMAIN world.archetypes : free(world.archetypes[k].mu)
                /\ \A p \in DOMAIN world.caches : free(world.caches[p].mu)

\* A Query has its rows and holds no lock, while a CreateEntity of the other
\* thread holds the World lock and the lock of an archetype of the iteration.
C26_Witness ==
    \E t, u \in Threads :
        /\ th[t].pc = "q_wlock"
        /\ th[t].result # <<>>
        /\ world.mu.writer = u /\ world.mu.held
        /\ \E i \in DOMAIN th[t].qi.archetypes :
              /\ world.archetypes[th[t].qi.archetypes[i]].mu.writer = u
              /\ world.archetypes[th[t].qi.archetypes[i]].mu.held

(***************************************************************************)
(* C27.  Two threads that create entities of two different archetypes,     *)
(* both of which exist already, do not contend on one shared lock while    *)
(* they append their rows: while the AddEntity of one thread is in         *)
(* progress, the w.mu.Lock() of a CreateEntity of the other thread does    *)
(* not have to wait for it.                                                *)
(***************************************************************************)
C27_AppendsDoNotContend ==
    \A t, u \in Threads :
        (/\ t # u
         /\ th[u].pc \in {"ce_alock", "ce_cols"}
         /\ th[t].pc = "idle"
         /\ \E k \in DOMAIN world.archetypes :
               k # th[u].archetype /\ world.archetypes[k].entities # <<>>
         /\ world.archetypes[th[u].archetype].entities # <<>>)
            => canLockBegin(world.mu)

(***************************************************************************)
(* C28.  Update holds no World lock while a system's Update runs, so that  *)
(* the calls the system makes on the same World (CreateEntity, AddSystems, *)
(* GetComponent, Query, Iterator, ClearQueryCache) get their locks; and an *)
(* Update that has begun returns.                                          *)
(***************************************************************************)
C28_UpdateHoldsNoLock ==
    /\ [](\A t \in Threads :
            th[t].pc = "up_run" =>
                /\ world.mu.readers[t] = 0 /\ world.mu.writer # t
                /\ canRLock(world.mu) /\ readerCount(world.mu) = 0)
    /\ (th[1].pc = "up_read") ~> (th[1].pc = "idle" /\ ret.op = "Update")

\* An Update has returned after two systems or more, and an entity and a
\* cache entry that calls of these systems made are in the World.
C28_Witness ==
    /\ ret.op = "Update"
    /\ th[1].pc = "idle"
    /\ Len(ret.invoked) >= 2
    /\ created # <<>>
    /\ world.queryCache # EmptyMap

(***************************************************************************)
(* C29.  Locks are taken in one order: a thread that is about to take the  *)
(* World lock, or waits for it, holds no Archetype lock and no query-cache *)
(* lock, and a thread that is about to take an Archetype lock, or waits    *)
(* for it, holds no query-cache lock.                                      *)
(***************************************************************************)
C29_LockOrder ==
    \A t \in Threads :
        LET holds(mu)  == mu.readers[t] > 0 \/ mu.writer = t
            archetype  == \E k \in DOMAIN world.archetypes : holds(world.archetypes[k].mu)
            cache      == \E p \in DOMAIN world.caches : holds(world.caches[p].mu)
        IN  /\ th[t].pc \in {"idle", "ce_lock", "cl_lock", "q_iter", "q_wlock", "q_wlock2"}
                  => ~archetype /\ ~cache
            /\ th[t].pc \in {"ce_add", "ce_alock", "gc_arch", "n_rlock", "n_cols"}
                  => ~cache

\* One thread holds the World lock and waits for the lock of an archetype
\* that the other thread has locked for reading.
C29_Witness ==
    \E t, u \in Threads :
        /\ th[t].pc = "ce_alock"
        /\ world.mu.writer = t /\ world.mu.held
        /\ ~canLock(archetypeOf(t).mu, t)
        /\ archetypeOf(t).mu.readers[u] > 0

(***************************************************************************)
(* C30.  An Archetype is in the World's per-component archetype list of    *)
(* component ID c if and only if c is in its signature, and then it is     *)
(* there exactly once; the lists hold nothing but archetypes of the World. *)
(***************************************************************************)
C30_IndexedByEveryComponent ==
    LET byComponent == world.archetypesByComponent
        places(c, k) == {i \in DOMAIN byComponent[c] : byComponent[c][i] = k}
    IN  /\ \A c \in DOMAIN byComponent :
              Range(byComponent[c]) \subseteq DOMAIN world.archetypes
        /\ \A k \in DOMAIN world.archetypes :
              \A c \in 0 .. (WordBits * BitSetWords - 1) :
                  IF Has(world.archetypes[k].signature, c)
                  THEN c \in DOMAIN byComponent /\ Cardinality(places(c, k)) = 1
                  ELSE c \in DOMAIN byComponent => places(c, k) = {}

\* A list with two archetypes, one of them with two components.
C30_Witness ==
    \E c \in DOMAIN world.archetypesByComponent :
        /\ Len(world.archetypesByComponent[c]) >= 2
        /\ \E i \in DOMAIN world.archetypesByComponent[c] :
              Len(world.archetypes[world.archetypesByComponent[c][i]].components) >= 2

(***************************************************************************)
(* C31.  Once an Archetype exists, no step changes its signature or its    *)
(* set of columns, and its entity list and its columns only grow at the    *)
(* end: no row is removed, moved or reordered, and the archetype and row   *)
(* index recorded for an entity stay as they are.                          *)
(***************************************************************************)
C31_ArchetypesOnlyGrow ==
    [][LET prefix(old, new) ==
               Len(old) <= Len(new) /\ \A i \in DOMAIN old : new[i] = old[i]
       IN  /\ \A k \in DOMAIN world.archetypes :
                 /\ k \in DOMAIN world'.archetypes
                 /\ world'.archetypes[k].signature = world.archetypes[k].signature
                 /\ world'.archetypes[k].compIndex = world.archetypes[k].compIndex
                 /\ Len(world'.archetypes[k].components) = Len(world.archetypes[k].components)
                 /\ prefix(world.archetypes[k].entities, world'.archetypes[k].entities)
                 /\ \A i \in DOMAIN world.archetypes[k].components :
                       /\ world'.archetypes[k].components[i].id
                             = world.archetypes[k].components[i].id
                       /\ prefix(world.archetypes[k].components[i].data,
                                 world'.archetypes[k].components[i].data)
           /\ \A e \in DOMAIN world.entityData :
                 /\ e \in DOMAIN world'.entityData
                 /\ world'.entityData[e] = world.entityData[e]]_vars

\* An archetype has got a second row after another archetype was made.
C31_Witness ==
    \E k, l \in DOMAIN world.archetypes :
        /\ k < l
        /\ Len(world.archetypes[k].entities) >= 2
        /\ Len(world.archetypes[k].components) >= 2
        /\ \E i, j \in DOMAIN world.archetypes[k].entities :
              /\ i < j
              /\ world.archetypes[l].entities # <<>>
              /\ world.archetypes[k].entities[i] < world.archetypes[l].entities[1]
              /\ world.archetypes[l].entities[1] < world.archetypes[k].entities[j]

(***************************************************************************)
(* C32.  A CreateEntity call changes nothing about the entities that exist *)
(* already: each keeps its EntityData (archetype and row) and GetComponent *)
(* gives the same for it and every component type as before the call; the *)
(* registered systems are unchanged as well.                               *)
(***************************************************************************)
C32_CreateEntityFrame ==
    [][created' # created =>
          /\ \A e \in DOMAIN world.entityData :
                /\ e \in DOMAIN world'.entityData
                /\ world'.entityData[e] = world.entityData[e]
                /\ \A T \in ComponentTypes \cup ConcTypes :
                      GetComponent(world', T, e) = GetComponent(world, T, e)
          /\ world'.systems = world.systems
          /\ world'.systemArrays = world.systemArrays]_vars

\* A CreateEntity has put an entity into the archetype of an earlier entity
\* while systems were registered.
C32_Witness ==
    /\ ret.op = "CreateEntity"
    /\ world.systems.len > 0
    /\ \E e \in DOMAIN world.entityData :
          /\ e < ret.entity
          /\ ret.entity \in DOMAIN world.entityData
          /\ world.entityData[e].archetype = world.entityData[ret.entity].archetype
          /\ \E T \in ConcTypes : GetComponent(world, T, e) # Returned(ZeroVal)

(***************************************************************************)
(* C33.  In every quiescent state of the World (no CreateEntity is between *)
(* its Lock and its Unlock): the entity map has as many entries as the     *)
(* next-EntityID counter                                                   *)
(* says, which is also the number of rows of all archetypes together, and  *)
(* every EntityID below the counter is in exactly one row of exactly one   *)
(* archetype.                                                              *)
(***************************************************************************)
C33_EntityCounts ==
    creating = {} =>
        LET rows == {kr \in (DOMAIN world.archetypes) \X (1 .. world.nextEntityID) :
                        kr[2] \in DOMAIN world.archetypes[kr[1]].entities}
        IN  /\ Cardinality(DOMAIN world.entityData) = world.nextEntityID
            /\ \A k \in DOMAIN world.archetypes :
                  Len(world.archetypes[k].entities) <= world.nextEntityID
            /\ Cardinality(rows) = world.nextEntityID
            /\ \A e \in 0 .. (world.nextEntityID - 1) :
                  Cardinality({kr \in rows :
                                  world.archetypes[kr[1]].entities[kr[2]] = e}) = 1

\* Both threads have created entities, in two archetypes or more, and no
\* CreateEntity is in progress while a Query is.
C33_Witness ==
    /\ creating = {}
    /\ \A t \in Threads : hist.returned[t] # <<>>
    /\ world.nextEntityID >= 3
    /\ Len(world.archetypes) >= 2
    /\ \E t \in Threads : th[t].pc \in {"n_rlock", "n_cols", "q_wlock"}

(***************************************************************************)
(* C34.  With no entity created meanwhile, the Next calls on the iterator  *)
(* of any filter return true once per row of the archetypes the iterator   *)
(* holds (those that Filter.Iterator found to match), then false, and      *)
(* after a false every further call returns false and leaves the iterator  *)
(* as it is.                                                               *)
(***************************************************************************)
C34_IteratorFinite ==
    \A f \in Filters :
        LET qi0  == Iterator(world, f)
            rows == {kr \in (DOMAIN qi0.archetypes) \X (1 .. MaxEntities) :
                        kr[2] \in DOMAIN world.archetypes[qi0.archetypes[kr[1]]].entities}
            n    == Cardinality(rows)
            call[i \in 0 .. (n + 2)] ==
                IF i = 0 THEN [qi |-> qi0, ok |-> TRUE]
                ELSE Next(world, call[i - 1].qi)
        IN  /\ \A i \in 1 .. n : call[i].ok
            /\ ~call[n + 1].ok
            /\ ~call[n + 2].ok
            /\ call[n + 2].qi = call[n + 1].qi

\* An iterator over two archetypes with three rows or more between them.
C34_Witness ==
    \E f \in Filters :
        LET qi0 == Iterator(world, f)
        IN  /\ Len(qi0.archetypes) >= 2
            /\ \A k \in DOMAIN qi0.archetypes :
                  world.archetypes[qi0.archetypes[k]].entities # <<>>
            /\ \E k \in DOMAIN qi0.archetypes :
                  Len(world.archetypes[qi0.archetypes[k]].entities) >= 2

(***************************************************************************)
(* C35.  A system that an AddSystems call made by a system's Update has    *)
(* registered is not called by the Update pass that was running then, and  *)
(* every Update pass that begins later calls it exactly once, after every  *)
(* system registered before it.                                            *)
(***************************************************************************)
C35_NestedAddSystems ==
    LET systemsOf(invoked) == {invoked[j].system : j \in DOMAIN invoked}
        places(invoked, s) == {j \in DOMAIN invoked : invoked[j].system = s}
        before(s)          == {r \in Range(hist.registered) : r < s}
    IN  /\ \A t \in Threads : th[t].pc = "up_run" =>
              \A s \in hist.nested \ Range(th[t].registered) :
                  s \notin systemsOf(th[t].invoked)
        /\ ret.op = "Update" =>
              \A s \in hist.nested :
                  IF s \in Range(ret.registered)
                  THEN /\ Cardinality(places(ret.invoked, s)) = 1
                       /\ \A r \in before(s) : \A i \in places(ret.invoked, r) :
                             \A j \in places(ret.invoked, s) : i < j
                       /\ \A r \in before(s) : places(ret.invoked, r) # {}
                  ELSE places(ret.invoked, s) = {}

\* An Update pass has returned that called a system which a system of an
\* earlier pass had registered.
C35_Witness ==
    /\ ret.op = "Update"
    /\ Len(ret.invoked) >= 2
    /\ \E s \in hist.nested : \E j \in DOMAIN ret.invoked :
          ret.invoked[j].system = s /\ j > 1

(***************************************************************************)
(* C36.  A CreateEntity or GetComponent call that panics (a component ID   *)
(* at or above 128, a nil component, a stored value of another dynamic     *)
(* type, or the nil zero value of a pointer type) leaves the World as it   *)
(* was: the step in which it panics changes no field of the World or of an *)
(* Archetype other than the lock it releases, no step of a GetComponent    *)
(* call does, and after the panic the thread holds neither the World lock  *)
(* nor an Archetype lock, so that no other thread waits for it.            *)
(***************************************************************************)
C36_PanicLeavesWorld ==
    [][LET data(w)     == [w EXCEPT !.mu = NewRWMutex,
                                    !.archetypes = [k \in DOMAIN @ |->
                                                       [@[k] EXCEPT !.mu = NewRWMutex]]]
           free(mu, t) == mu.readers[t] = 0 /\ mu.writer # t
           last(h)     == h.panics[Len(h.panics)]
       IN  /\ \A t \in Threads :
                (th[t].pc \in {"gc_read", "gc_arch", "gc_comp"} /\ th'[t] # th[t])
                    => data(world') = data(world)
           /\ hist'.panics # hist.panics =>
                /\ data(world') = data(world)
                /\ last(hist')[2] = "CreateEntity" => world' = world
                /\ th'[last(hist')[1]].pc = "idle"
                /\ free(world'.mu, last(hist')[1])
                /\ \A k \in DOMAIN world'.archetypes :
                      free(world'.archetypes[k].mu, last(hist')[1])
                /\ \A u \in Threads \ {last(hist')[1]} :
                      th'[u].pc = "idle" =>
                          /\ canLockBegin(world'.mu) /\ canRLock(world'.mu)
                          /\ \A k \in DOMAIN world'.archetypes :
                                canLockBegin(world'.archetypes[k].mu)]_vars

\* A CreateEntity and a GetComponent have panicked, this one at its type
\* assertion, two entities exist and no call is in progress.
C36_Witness ==
    /\ \E i \in DOMAIN hist.panics : hist.panics[i][2] = "CreateEntity"
    /\ \E i \in DOMAIN hist.panics : hist.panics[i][3] = 317
    /\ \A t \in Threads : th[t].pc = "idle"
    /\ world.nextEntityID >= 2

(***************************************************************************)
(* C37.  An entity created by CreateEntity with no components is in an     *)
(* archetype with the empty signature and no columns, no row that Query    *)
(* returns or that an iterator gives belongs to it, and GetComponent for   *)
(* it returns the zero value, whatever the component type.                 *)
(***************************************************************************)
C37_EntityWithoutComponents ==
    \A e \in Entities : created[e + 1] = <<>> =>
        /\ e \in DOMAIN world.entityData
        /\ world.archetypes[world.entityData[e].archetype].signature = EmptyBitSet
        /\ world.archetypes[world.entityData[e].archetype].components = <<>>
        /\ \A f \in Filters : \A k \in DOMAIN iteratorRows(f) :
              /\ iteratorRows(f)[k] # <<>>
              /\ \A i \in DOMAIN iteratorRows(f)[k] : iteratorRows(f)[k][i].val # e + 1
        /\ ret.op = "Query" =>
              \A k \in DOMAIN ret.result :
                  /\ ret.result[k] # <<>>
                  /\ \A i \in DOMAIN ret.result[k] : ret.result[k][i].val # e + 1
        /\ (ret.op = "GetComponent" /\ ret.entity = e) => ret.out = Returned(ZeroVal)

(***************************************************************************)
(* C38.  For signatures a and b built from component IDs 0..127:           *)
(* a.ContainsAll(b) is true exactly when every ID of b is an ID of a,      *)
(* a.Intersects(b) exactly when some ID is in both, and a.Equals(b)        *)
(* exactly when a and b have the same IDs.                                 *)
(***************************************************************************)
C38_SetRelations ==
    ret.op = "Set" =>
        /\ ret.containsAll <=> ret.bIDs \subseteq ret.aIDs
        /\ ret.intersects <=> (ret.aIDs \cap ret.bIDs) # {}
        /\ ret.equals <=> ret.aIDs = ret.bIDs

\* b has IDs of both words and a has them all and one more.
C38_Witness ==
    /\ ret.op = "Set"
    /\ ret.containsAll /\ ret.intersects /\ ~ret.equals
    /\ \E i, j \in ret.bIDs : i < WordBits /\ j >= WordBits

(***************************************************************************)
(* C39.  After Set calls with component IDs of 0..127, in any order and    *)
(* with repeats, Indices returns exactly the IDs given, each once and in   *)
(* strictly ascending order over both words, Has(i) is true exactly for    *)
(* these IDs, and a second Indices call returns the same sequence.         *)
(***************************************************************************)
C39_IndicesAscending ==
    ret.op = "Set" =>
        /\ Range(ret.indices) = ret.aIDs
        /\ Len(ret.indices) = Cardinality(ret.aIDs)
        /\ \A i, j \in DOMAIN ret.indices : i < j => ret.indices[i] < ret.indices[j]
        /\ ret.has = ret.aIDs
        /\ ret.again = ret.indices

\* Three IDs or more were set, of both words.
C39_Witness ==
    /\ ret.op = "Set"
    /\ Len(ret.indices) >= 3
    /\ \E i, j \in ret.aIDs : i < WordBits /\ j > WordBits

====
